---- MODULE Spec2Model ----
(***************************************************************************)
(* Fall detection of foot-view (src/backend/fall_detection.py):            *)
(*   - the temporal state machine of FallDetector.detect_frames_buffer and *)
(*     FallDetector.detect_video (sliding vote window, minimum duration,   *)
(*     cooldown, trailing event at end of stream);                         *)
(*   - the IoU association of FallDetector._match_detections.              *)
(* Confidences are in tenths (6 = 0.6).  Times are frame indices: the code *)
(* reports start_time = start_frame / fps, end_time = end_frame / fps and  *)
(* duration = (end_frame - start_frame) / fps, so a time comparison        *)
(* t >= d seconds is the frame comparison  frames >= d * fps.              *)
(***************************************************************************)
EXTENDS Integers, Sequences, FiniteSets, TLC

\* ---------------------------------------------------------------- bounds
MaxFps == 5
MaxSkip == 3
MaxSamples == 10
MaxCalls == 2
CallSamples == 5
MaxPersons == 1
MaxDets == 2
MaxHistory == 6
MaxFrames == 14
MaxSeries == 5
MaxPoseFrames == 2
MaxCycles == 2

\* ------------------------------------------------------------- constants
\* fall_event_start_frame = None
NoFrame == -1
\* peak fall confidences a frame with a fall can report, in tenths
\* (the fall model only returns boxes with conf >= fall_confidence = 0.6)
ConfValues == {6, 9}

Max(a, b) == IF a >= b THEN a ELSE b
Min(a, b) == IF a <= b THEN a ELSE b

VARIABLES
    detector,                   \* the module-level singleton _detector (FALSE = None)
    calls,                      \* processing calls started on the singleton
    leftover,                   \* history: the previous call ended inside a cooldown
    pc,                         \* "idle" | "loop" | "done": position in the current call
    mode,                       \* "buffer" (detect_frames_buffer) | "video" (detect_video)
    fps,
    skip_frames,
    i,                          \* loop index = frame_idx of the next frame
    frame_results,
    fall_events,
    detection_window,
    in_fall_event,
    fall_event_start_frame,
    fall_event_confidence_sum,
    fall_event_frame_count,
    frames_since_last_event,
    \* FallDetector._match_detections
    iou_threshold,              \* self.iou_threshold, a ratio <<num, den>>
    mpc,                        \* "off" | "person" | "dets" | "done"
    persons,                    \* the person boxes of the frame
    fall_detections,            \* the fall/normal boxes of the frame
    p,                          \* index of the person of the outer loop
    d,                          \* index of the detection of the inner loop
    is_fall,
    fall_conf,
    best_iou,
    matched_persons,
    \* FallDetector.detect_frame
    use_two_stage,              \* self.use_two_stage
    person_model,               \* self.person_model is not None
    fall_model,                 \* self.fall_model is not None
    raw_persons,                \* the boxes the person model returns for the frame
    raw_falls,                  \* the boxes the fall model returns for the frame
    dpc,                        \* "off" | "call" | "matching" | "returned"
    result,                     \* the dict detect_frame returns
    \* filter_outliers and calculate_dynamic_range (src/app.py)
    values,                     \* the metric's history, in units
    hard_limits,                \* <<hard_min, hard_max>>, or NoLimits for None
    base_range,                 \* <<base_min, base_max>>, in units
    metric_type,                \* "normal" | "lower_better"
    rpc,                        \* "off" | "call" | "filtered" | "refiltered" | "ranged"
    filter_out,                 \* what filter_outliers returned
    refilter_out,               \* what filter_outliers returned for its own output
    range_out,                  \* what calculate_dynamic_range returned
    \* analyze_gait (src/backend/gait_analysis.py)
    keypoints,                  \* keypoints_df: one record of columns per frame
    gait_fps,                   \* the fps argument
    gpc,                        \* "off" | "call" | "torso" | "cycles" | "measured" |
                                \* "torso_raised" | "cycles_raised"
    torso_info,                 \* what calculate_torso_stability returned
    savgol_calls,               \* the invocations of signal.savgol_filter, in order
    gait_cycle_info,            \* what detect_gait_cycles returned
    measurements,               \* what calculate_gait_metrics returned, and
    has_valid_gait,             \* its second result
    \* Series.ffill().bfill() (src/backend/gait_analysis.py)
    series,                     \* one column of keypoints_df
    fpc,                        \* "off" | "call" | "filled" | "refilled"
    filled,                     \* series.ffill().bfill()
    refilled,                   \* filled.ffill().bfill()
    \* extract_keypoints (pose_detection.py) and the frame loop of process_video
    extractor,                  \* "extract_keypoints" | "process_video"
    pose_results,               \* what the pose detector returns for each frame
    epc,                        \* "off" | "run"
    frames_read,                \* frames handled so far
    returned,                   \* what extract_keypoints returned, call by call
    keypoints_list,             \* the list process_video builds
    \* detect_gait_cycles on sine-wave ankles (src/backend/gait_analysis.py)
    ankles,                     \* [right, left]: the two ankle y columns
    wave_period,                \* the period of the sine, in frames
    wave_fps,                   \* the fps argument
    wpc,                        \* "off" | "call" | "done"
    wave_info,                  \* what detect_gait_cycles returned
    \* detect_video run on the frames detect_frames_buffer was run on
    buffer_run,                 \* what the buffer call saw and returned, or NoRun
    \* calculate_iou (src/backend/fall_detection.py)
    iou_boxes,                  \* <<box1, box2>>, the arguments
    ipc,                        \* "off" | "call" | "returned"
    iou_result,                 \* what calculate_iou returned
    \* history_metrics (src/app.py)
    stats,                      \* config['stats'] of the metric, NoStats for None
    \* send-verification-code and register (src/app.py)
    users,                      \* the rows of User, in order of creation
    verification_codes,         \* the rows of VerificationCode, in order of creation
    pending,                    \* register requests past their checks, not yet committed
    registrations,              \* the register requests answered with success, in order
    last_response               \* the answer to the latest request

fsmVars == <<detector, calls, leftover, pc, mode, fps, skip_frames, i, frame_results,
             fall_events, detection_window, in_fall_event, fall_event_start_frame,
             fall_event_confidence_sum, fall_event_frame_count, frames_since_last_event>>

matchVars == <<iou_threshold, mpc, persons, fall_detections, p, d, is_fall, fall_conf,
               best_iou, matched_persons>>

frameVars == <<use_two_stage, person_model, fall_model, raw_persons, raw_falls, dpc, result>>

rangeVars == <<values, hard_limits, base_range, metric_type, rpc, filter_out, refilter_out,
               range_out>>

gaitVars == <<keypoints, gait_fps, gpc, torso_info, savgol_calls, gait_cycle_info,
              measurements, has_valid_gait>>

fillVars == <<series, fpc, filled, refilled>>

extractVars == <<extractor, pose_results, epc, frames_read, returned, keypoints_list>>

waveVars == <<ankles, wave_period, wave_fps, wpc, wave_info>>

twinVars == <<buffer_run>>

iouVars == <<iou_boxes, ipc, iou_result>>

statsVars == <<stats>>

authVars == <<users, verification_codes, pending, registrations, last_response>>

\* the components added to the five above
extraVars == <<fillVars, extractVars, waveVars, twinVars, iouVars, statsVars, authVars>>

vars == <<fsmVars, matchVars, frameVars, rangeVars, gaitVars, extraVars>>

\* what the actions of one component leave alone
outsideFsm == <<matchVars, frameVars, rangeVars, gaitVars, extraVars>>
outsideMatch == <<fsmVars, frameVars, rangeVars, gaitVars, extraVars>>
outsideFrame == <<fsmVars, rangeVars, gaitVars, extraVars>>
outsideRange == <<fsmVars, matchVars, frameVars, gaitVars, extraVars>>
outsideGait == <<fsmVars, matchVars, frameVars, rangeVars, extraVars>>
coreVars == <<fsmVars, matchVars, frameVars, rangeVars, gaitVars>>
outsideFill == <<coreVars, extractVars, waveVars, twinVars, iouVars, statsVars, authVars>>
outsideExtract == <<coreVars, fillVars, waveVars, twinVars, iouVars, statsVars, authVars>>
outsideWave == <<coreVars, fillVars, extractVars, twinVars, iouVars, statsVars, authVars>>
outsideIou == <<coreVars, fillVars, extractVars, waveVars, twinVars, statsVars, authVars>>
outsideStats == <<fsmVars, matchVars, frameVars, gaitVars, fillVars, extractVars, waveVars,
                  twinVars, iouVars, authVars>>
outsideAuth == <<coreVars, fillVars, extractVars, waveVars, twinVars, iouVars, statsVars>>

\* ------------------------------------------- temporal analysis parameters
\* max(5, int(fps * 1.5 / skip_frames))   |   max(5, int(fps * 1.5))
WindowSize(m, f, k) ==
    IF m = "buffer" THEN Max(5, (f * 15) \div (10 * k)) ELSE Max(5, (f * 15) \div 10)

\* max(2, int(fps * 1.0 / skip_frames))   |   max(3, int(fps * 1.0))
MinFallFrames(m, f, k) ==
    IF m = "buffer" THEN Max(2, f \div k) ELSE Max(3, f)

\* int(fps * 2.0 / skip_frames)   |   int(fps * 2.0)
CooldownFrames(m, f, k) ==
    IF m = "buffer" THEN (f * 2) \div k ELSE f * 2

\* the parameters of the call in progress
window_size == WindowSize(mode, fps, skip_frames)
min_fall_frames == MinFallFrames(mode, fps, skip_frames)
cooldown_frames == CooldownFrames(mode, fps, skip_frames)

\* the span an event needs, in original frames:
\* min_fall_frames * skip_frames   |   min_fall_frames
MinSpanFrames ==
    IF mode = "buffer" THEN min_fall_frames * skip_frames ELSE min_fall_frames

\* ------------------------------------------------------- the vote window
RECURSIVE Trues(_)
Trues(w) == IF w = <<>> THEN 0 ELSE (IF Head(w) THEN 1 ELSE 0) + Trues(Tail(w))

\* mutant: the oldest flag is dropped one sample early
PushWindowOffByOne(w, flag) ==
    LET a == Append(w, flag) IN IF Len(a) >= window_size THEN Tail(a) ELSE a

\* detection_window.append(flag); if len > window_size: pop(0)
PushWindow(w, flag) ==
    LET a == Append(w, flag) IN IF Len(a) > window_size THEN Tail(a) ELSE a

\* mutant: the vote is taken without waiting for 3 buffered samples
SmoothedNoMinimum(w) == 2 * Trues(w) >= Len(w)

\* fall_ratio = sum(w) / len(w);  smoothed = fall_ratio >= 0.5, once
\* len(w) >= min(window_size, 3); False before
Smoothed(w) ==
    IF Len(w) >= Min(window_size, 3) THEN 2 * Trues(w) >= Len(w) ELSE FALSE

\* ------------------------------------------------ the event state machine
\* the dict appended to fall_events; avg_confidence = sum / max(1, count) is
\* kept as the pair (confidence_sum, confidence_count)
Event(start, end, csum, ccount) ==
    [start_frame |-> start, end_frame |-> end, duration_frames |-> end - start,
     confidence_sum |-> csum, confidence_count |-> Max(1, ccount)]

\* the working memory of one call, as a record
Locals ==
    [frame_results |-> frame_results,
     fall_events |-> fall_events,
     detection_window |-> detection_window,
     in_fall_event |-> in_fall_event,
     fall_event_start_frame |-> fall_event_start_frame,
     fall_event_confidence_sum |-> fall_event_confidence_sum,
     fall_event_frame_count |-> fall_event_frame_count,
     frames_since_last_event |-> frames_since_last_event]

\* the working memory at the start of a call
FreshLocals(cooldown) ==
    [frame_results |-> <<>>,
     fall_events |-> <<>>,
     detection_window |-> <<>>,
     in_fall_event |-> FALSE,
     fall_event_start_frame |-> NoFrame,
     fall_event_confidence_sum |-> 0,
     fall_event_frame_count |-> 0,
     frames_since_last_event |-> cooldown]

\* mutant: frames without a raw detection (confidence 0) are not accumulated
OnSmoothedTrueSkipZero(s, frame_idx, confidence) ==
    IF ~s.in_fall_event /\ s.frames_since_last_event >= cooldown_frames
    THEN [s EXCEPT !.in_fall_event = TRUE,
                   !.fall_event_start_frame = frame_idx,
                   !.fall_event_confidence_sum = confidence,
                   !.fall_event_frame_count = 1]
    ELSE IF s.in_fall_event /\ confidence > 0
         THEN [s EXCEPT !.fall_event_confidence_sum = @ + confidence,
                        !.fall_event_frame_count = @ + 1]
         ELSE s

\* smoothed-true branch: open an event after the cooldown, or accumulate
OnSmoothedTrue(s, frame_idx, confidence) ==
    IF ~s.in_fall_event /\ s.frames_since_last_event >= cooldown_frames
    THEN [s EXCEPT !.in_fall_event = TRUE,
                   !.fall_event_start_frame = frame_idx,
                   !.fall_event_confidence_sum = confidence,
                   !.fall_event_frame_count = 1]
    ELSE IF s.in_fall_event
         THEN [s EXCEPT !.fall_event_confidence_sum = @ + confidence,
                        !.fall_event_frame_count = @ + 1]
         ELSE s

\* mutant: the cooldown counter is reset whenever an event closes, emitted or not
OnSmoothedFalseAlwaysReset(s, frame_idx) ==
    IF s.in_fall_event
    THEN LET fall_duration_frames == frame_idx - s.fall_event_start_frame
             emit == fall_duration_frames >= MinSpanFrames
         IN [s EXCEPT !.fall_events =
                          IF emit
                          THEN Append(@, Event(s.fall_event_start_frame, frame_idx,
                                               s.fall_event_confidence_sum,
                                               s.fall_event_frame_count))
                          ELSE @,
                      !.frames_since_last_event = 0,
                      !.in_fall_event = FALSE,
                      !.fall_event_start_frame = NoFrame,
                      !.fall_event_confidence_sum = 0,
                      !.fall_event_frame_count = 0]
    ELSE s

\* smoothed-false branch: close the event in progress, emit it if long enough
OnSmoothedFalse(s, frame_idx) ==
    IF s.in_fall_event
    THEN LET fall_duration_frames == frame_idx - s.fall_event_start_frame
             emit == fall_duration_frames >= MinSpanFrames
         IN [s EXCEPT !.fall_events =
                          IF emit
                          THEN Append(@, Event(s.fall_event_start_frame, frame_idx,
                                               s.fall_event_confidence_sum,
                                               s.fall_event_frame_count))
                          ELSE @,
                      !.frames_since_last_event = IF emit THEN 0 ELSE @,
                      !.in_fall_event = FALSE,
                      !.fall_event_start_frame = NoFrame,
                      !.fall_event_confidence_sum = 0,
                      !.fall_event_frame_count = 0]
    ELSE s

\* one sampled frame: det is detect_frame's result for it
FrameStep(s, frame_idx, det) ==
    LET w == PushWindow(s.detection_window, det.fall_detected)
        smoothed_fall_detected == Smoothed(w)
        r == [frame |-> frame_idx,
              fall_detected |-> det.fall_detected,
              confidence |-> det.confidence,
              smoothed_fall_detected |-> smoothed_fall_detected]
        t == [s EXCEPT !.detection_window = w,
                       !.frame_results = Append(@, r),
                       !.frames_since_last_event = @ + 1]
    IN IF smoothed_fall_detected
       THEN OnSmoothedTrue(t, frame_idx, det.confidence)
       ELSE OnSmoothedFalse(t, frame_idx)

\* mutant: the trailing event is measured against one past the final frame
EndIndexPastEnd(n) == n

\* the frame index the trailing event is measured against and ends at, when
\* the stream ends with the loop index at n:
\* frame_buffer[-1][0]   |   frame_idx after the last read
EndIndex(n) == IF mode = "buffer" THEN n - 1 ELSE n

\* mutant: the event in progress at end of stream is dropped
FlushNothing(s, n) == s.fall_events

\* mutant: the event in progress at end of stream is emitted whatever its span
FlushAlways(s, n) ==
    IF s.in_fall_event /\ s.fall_event_start_frame # NoFrame
    THEN Append(s.fall_events,
                Event(s.fall_event_start_frame, EndIndex(n),
                      s.fall_event_confidence_sum, s.fall_event_frame_count))
    ELSE s.fall_events

\* end of stream: the event still in progress is emitted if long enough
Flush(s, n) ==
    IF s.in_fall_event /\ s.fall_event_start_frame # NoFrame
       /\ EndIndex(n) - s.fall_event_start_frame >= MinSpanFrames
    THEN Append(s.fall_events,
                Event(s.fall_event_start_frame, EndIndex(n),
                      s.fall_event_confidence_sum, s.fall_event_frame_count))
    ELSE s.fall_events

\* ------------------------------------------------------------ the inputs
\* what detect_frame can report for a frame: confidence is the largest
\* fall_confidence of a fallen person, 0.0 when nobody fell
Detections(confs) ==
    {[fall_detected |-> FALSE, confidence |-> 0]}
    \cup {[fall_detected |-> TRUE, confidence |-> c] : c \in confs}

SetLocals(s) ==
    /\ frame_results' = s.frame_results
    /\ fall_events' = s.fall_events
    /\ detection_window' = s.detection_window
    /\ in_fall_event' = s.in_fall_event
    /\ fall_event_start_frame' = s.fall_event_start_frame
    /\ fall_event_confidence_sum' = s.fall_event_confidence_sum
    /\ fall_event_frame_count' = s.fall_event_frame_count
    /\ frames_since_last_event' = s.frames_since_last_event

\* --------------------------------------------------------------- actions
\* mutant: the cooldown counter is kept on the detector and survives the call
StartCallKeepCooldown(maxCalls) ==
    /\ pc \in {"idle", "done"}
    /\ calls < maxCalls
    /\ \E m \in {"buffer", "video"}, f \in 1..MaxFps, k \in 1..MaxSkip :
          /\ m = "video" => k = 1
          /\ mode' = m
          /\ fps' = f
          /\ skip_frames' = k
          /\ SetLocals([FreshLocals(CooldownFrames(m, f, k)) EXCEPT
                           !.frames_since_last_event =
                               IF pc = "done" THEN frames_since_last_event ELSE @])
    /\ detector' = TRUE
    /\ calls' = calls + 1
    /\ leftover' = (pc = "done" /\ frames_since_last_event < cooldown_frames)
    /\ pc' = "loop"
    /\ i' = 0
    /\ UNCHANGED outsideFsm

\* detect_fall -> get_detector -> detect_frames_buffer / detect_video:
\* the singleton is created on first use, the parameters are computed and
\* every piece of working memory is initialised
StartCall(maxCalls) ==
    /\ pc \in {"idle", "done"}
    /\ calls < maxCalls
    /\ \E m \in {"buffer", "video"}, f \in 1..MaxFps, k \in 1..MaxSkip :
          /\ m = "video" => k = 1
          /\ mode' = m
          /\ fps' = f
          /\ skip_frames' = k
          /\ SetLocals(FreshLocals(CooldownFrames(m, f, k)))
    /\ detector' = TRUE
    /\ calls' = calls + 1
    /\ leftover' = (pc = "done" /\ frames_since_last_event < cooldown_frames)
    /\ pc' = "loop"
    /\ i' = 0
    /\ UNCHANGED outsideFsm

\* a frame of the buffer that the skip factor passes over
SkipFrame ==
    /\ pc = "loop"
    /\ i % skip_frames # 0
    /\ i' = i + 1
    /\ UNCHANGED <<detector, calls, leftover, pc, mode, fps, skip_frames, frame_results,
                   fall_events, detection_window, in_fall_event, fall_event_start_frame,
                   fall_event_confidence_sum, fall_event_frame_count,
                   frames_since_last_event, outsideFsm>>

\* the loop body for a sampled frame with detection result det
Frame(det) ==
    /\ SetLocals(FrameStep(Locals, i, det))
    /\ i' = i + 1
    /\ UNCHANGED <<detector, calls, leftover, pc, mode, fps, skip_frames, outsideFsm>>

ProcessFrame(maxSamples, confs) ==
    /\ pc = "loop"
    /\ i % skip_frames = 0
    /\ Len(frame_results) < maxSamples
    /\ \E det \in Detections(confs) : Frame(det)

\* the stream ends: trailing event, then return
Return ==
    /\ fall_events' = Flush(Locals, i)
    /\ pc' = "done"
    /\ UNCHANGED <<detector, calls, leftover, mode, fps, skip_frames, i, frame_results,
                   detection_window, in_fall_event, fall_event_start_frame,
                   fall_event_confidence_sum, fall_event_frame_count,
                   frames_since_last_event, outsideFsm>>

EndOfStream ==
    /\ pc = "loop"
    /\ Return

\* -------------------------------------------------------- specifications
\* Spec: one processing call over every stream of up to MaxSamples sampled
\* frames, each with or without a fall (confidence 0.9), for every fps up to
\* MaxFps and skip factor up to MaxSkip.
\* SpecCalls: up to MaxCalls calls on the singleton over streams of up to
\* CallSamples sampled frames, with both confidences of ConfValues.
\* the result of detect_frame for a frame without persons
EmptyResult ==
    [fall_detected |-> FALSE, confidence |-> 0, persons |-> <<>>,
     fall_count |-> 0, normal_count |-> 0, total_persons |-> 0]

\* detect_frame is not being called
FrameOff ==
    /\ use_two_stage = TRUE
    /\ person_model = FALSE
    /\ fall_model = FALSE
    /\ raw_persons = <<>>
    /\ raw_falls = <<>>
    /\ dpc = "off"
    /\ result = EmptyResult

\* hard_limits = None
NoLimits == <<>>

\* what filter_outliers returns: (filtered, outlier_count)
NothingFiltered == [filtered |-> <<>>, outlier_count |-> 0]

\* neither filter_outliers nor calculate_dynamic_range is being called
RangeOff ==
    /\ values = <<>>
    /\ hard_limits = NoLimits
    /\ base_range = <<0, 0>>
    /\ metric_type = "normal"
    /\ rpc = "off"
    /\ filter_out = NothingFiltered
    /\ refilter_out = NothingFiltered
    /\ range_out = [range |-> <<0, 0>>, personal |-> FALSE, outlier_count |-> 0]

\* None in place of a metric or a frame index, and NaN in place of a
\* coordinate or an angle: metrics, frame indices, normalised coordinates and
\* the angles are never negative
None == -1
NaN == -1

\* None or NaN in place of a ratio <<num, den>>
NoRatio == <<>>

\* the dict detect_gait_cycles returns when it found nothing (lines 61-70)
NoCycles ==
    [gait_cycles_right |-> <<>>, gait_cycles_left |-> <<>>,
     mean_gait_cycle_right |-> NoRatio, mean_gait_cycle_left |-> NoRatio,
     first_gait_cycle_frame |-> None,
     valleys_left |-> <<>>, valleys_right |-> <<>>, cadence |-> NoRatio]

NoTorso == [mean_angle |-> NoRatio, stability |-> NoRatio]

NoMeasurements ==
    [cadence |-> None, cycle_time |-> None, symmetry_index |-> None,
     variability |-> None, torso_stability |-> None, torso_tilt |-> None,
     step_length |-> None, swing_amplitude |-> None, knee_rom |-> None]

\* analyze_gait is not being called
GaitOff ==
    /\ keypoints = <<>>
    /\ gait_fps = 30
    /\ gpc = "off"
    /\ torso_info = NoTorso
    /\ savgol_calls = <<>>
    /\ gait_cycle_info = NoCycles
    /\ measurements = NoMeasurements
    /\ has_valid_gait = FALSE

\* no column is being gap-filled
FillOff ==
    /\ series = <<>>
    /\ fpc = "off"
    /\ filled = <<>>
    /\ refilled = <<>>

\* no frame is being turned into a keypoint record
ExtractOff ==
    /\ extractor = "extract_keypoints"
    /\ pose_results = <<>>
    /\ epc = "off"
    /\ frames_read = 0
    /\ returned = <<>>
    /\ keypoints_list = <<>>

\* no sine-wave trajectory is being analysed
WaveOff ==
    /\ ankles = [right |-> <<>>, left |-> <<>>]
    /\ wave_period = 0
    /\ wave_fps = 30
    /\ wpc = "off"
    /\ wave_info = NoCycles

\* no call of detect_frames_buffer has been recorded
NoRun == [detections |-> <<>>, fall_events |-> <<>>, recorded |-> FALSE]

\* no stream is being processed a second time
TwinOff ==
    /\ buffer_run = NoRun

\* calculate_iou is not being called on its own
IouOff ==
    /\ iou_boxes = <<>>
    /\ ipc = "off"
    /\ iou_result = <<0, 1>>

\* config['stats'] = None
NoStats == [count |-> 0, total_count |-> 0, outliers_filtered |-> 0, mean |-> 0,
            std |-> 0, min |-> 0, max |-> 0, reported |-> FALSE]

\* history_metrics has not reported on the metric
StatsOff ==
    /\ stats = NoStats

\* no account request has been made
AuthOff ==
    /\ users = <<>>
    /\ verification_codes = <<>>
    /\ pending = {}
    /\ registrations = <<>>
    /\ last_response = "none"

ExtrasOff == FillOff /\ ExtractOff /\ WaveOff /\ TwinOff /\ IouOff /\ StatsOff /\ AuthOff

\* every component but the event state machine and the associator is idle
ComponentsOff == FrameOff /\ RangeOff /\ GaitOff /\ ExtrasOff

\* no frame is being matched
MatchOff ==
    /\ iou_threshold = <<3, 10>>
    /\ mpc = "off"
    /\ persons = <<>>
    /\ fall_detections = <<>>
    /\ p = 1
    /\ d = 1
    /\ is_fall = FALSE
    /\ fall_conf = 0
    /\ best_iou = <<0, 1>>
    /\ matched_persons = <<>>

\* no processing call is in progress
FsmIdle ==
    /\ detector = FALSE
    /\ calls = 0
    /\ leftover = FALSE
    /\ pc = "idle"
    /\ mode = "buffer"
    /\ fps = 1
    /\ skip_frames = 1
    /\ i = 0
    /\ frame_results = <<>>
    /\ fall_events = <<>>
    /\ detection_window = <<>>
    /\ in_fall_event = FALSE
    /\ fall_event_start_frame = NoFrame
    /\ fall_event_confidence_sum = 0
    /\ fall_event_frame_count = 0
    /\ frames_since_last_event = 0

Init == FsmIdle /\ MatchOff /\ ComponentsOff

Next ==
    \/ StartCall(1)
    \/ SkipFrame
    \/ ProcessFrame(MaxSamples, {9})
    \/ EndOfStream

Spec == Init /\ [][Next]_vars

\* two processing calls, one after the other, on the shared singleton
NextCalls ==
    \/ StartCall(MaxCalls)
    \/ SkipFrame
    \/ ProcessFrame(CallSamples, ConfValues)
    \/ EndOfStream

SpecCalls == Init /\ [][NextCalls]_vars

\* the timeline of the specification's cooldown example: fps = 30, skip = 1,
\* frames 0..140, the raw flag true on 30..75 and on 91..140
TimelineFrames == 0..140
TimelineFlag(k) == (k >= 30 /\ k <= 75) \/ (k >= 91 /\ k <= 140)
TimelineDetection(k) ==
    IF TimelineFlag(k) THEN [fall_detected |-> TRUE, confidence |-> 9]
    ELSE [fall_detected |-> FALSE, confidence |-> 0]

InitTimeline ==
    /\ detector = TRUE
    /\ calls = 1
    /\ leftover = FALSE
    /\ pc = "loop"
    /\ mode = "buffer"
    /\ fps = 30
    /\ skip_frames = 1
    /\ i = 0
    /\ frame_results = <<>>
    /\ fall_events = <<>>
    /\ detection_window = <<>>
    /\ in_fall_event = FALSE
    /\ fall_event_start_frame = NoFrame
    /\ fall_event_confidence_sum = 0
    /\ fall_event_frame_count = 0
    /\ frames_since_last_event = CooldownFrames("buffer", 30, 1)
    /\ MatchOff
    /\ ComponentsOff

TimelineFrame ==
    /\ pc = "loop"
    /\ i \in TimelineFrames
    /\ Frame(TimelineDetection(i))

TimelineEnd ==
    /\ pc = "loop"
    /\ i \notin TimelineFrames
    /\ Return

NextTimeline ==
    \/ TimelineFrame
    \/ TimelineEnd

SpecTimeline == InitTimeline /\ [][NextTimeline]_vars

\* ------------------------------------------ the detection associator
\* boxes are <<x1, y1, x2, y2>>; an IoU is the ratio <<intersection, union>>
BoxPool == {<<0, 0, 2, 2>>, <<0, 0, 2, 1>>, <<0, 0, 1, 2>>, <<1, 1, 2, 2>>}

\* what _detect_persons returns: conf >= person_confidence = 0.5
PersonPool == {[bbox |-> b, confidence |-> 7] : b \in BoxPool}

\* what _detect_falls returns: conf >= fall_confidence = 0.6
DetectionPool ==
    {[bbox |-> b, is_fall |-> TRUE, confidence |-> c] : b \in BoxPool, c \in ConfValues}
    \cup {[bbox |-> b, is_fall |-> FALSE, confidence |-> 8] : b \in BoxPool}

\* iou_threshold: the default 0.3, and 0.5
ThresholdPool == {<<3, 10>>, <<1, 2>>}

SeqsUpTo(S, n) == UNION {[1..k -> S] : k \in 0..n}

\* mutant: the intersection is divided by the area of the first box
calculate_iou_of_first(box1, box2) ==
    LET x1 == Max(box1[1], box2[1])
        y1 == Max(box1[2], box2[2])
        x2 == Min(box1[3], box2[3])
        y2 == Min(box1[4], box2[4])
        intersection == Max(0, x2 - x1) * Max(0, y2 - y1)
        area1 == (box1[3] - box1[1]) * (box1[4] - box1[2])
    IN IF area1 <= 0 THEN <<0, 1>> ELSE <<intersection, area1>>

calculate_iou(box1, box2) ==
    LET x1 == Max(box1[1], box2[1])
        y1 == Max(box1[2], box2[2])
        x2 == Min(box1[3], box2[3])
        y2 == Min(box1[4], box2[4])
        intersection == Max(0, x2 - x1) * Max(0, y2 - y1)
        area1 == (box1[3] - box1[1]) * (box1[4] - box1[2])
        area2 == (box2[3] - box2[1]) * (box2[4] - box2[2])
        union == area1 + area2 - intersection
    IN IF union <= 0 THEN <<0, 1>> ELSE <<intersection, union>>

\* mutant: the comparison is inclusive
RatioGe(a, b) == a[1] * b[2] >= b[1] * a[2]

\* a > b for ratios with positive denominators
RatioGt(a, b) == a[1] * b[2] > b[1] * a[2]

\* outer loop: the next person starts as normal
MatchBegin ==
    /\ mpc = "person"
    /\ p <= Len(persons)
    /\ is_fall' = FALSE
    /\ fall_conf' = 0
    /\ best_iou' = <<0, 1>>
    /\ d' = 1
    /\ mpc' = "dets"
    /\ UNCHANGED <<iou_threshold, persons, fall_detections, p, matched_persons, outsideMatch>>

\* inner loop: one fall/normal box against the person
MatchDetection ==
    /\ mpc = "dets"
    /\ d <= Len(fall_detections)
    /\ LET detection == fall_detections[d]
           iou == calculate_iou(persons[p].bbox, detection.bbox)
           better == RatioGt(iou, iou_threshold) /\ RatioGt(iou, best_iou)
       IN /\ best_iou' = IF better THEN iou ELSE best_iou
          /\ is_fall' = IF better /\ detection.is_fall THEN TRUE ELSE is_fall
          /\ fall_conf' = IF better /\ detection.is_fall THEN detection.confidence
                          ELSE fall_conf
    /\ d' = d + 1
    /\ UNCHANGED <<iou_threshold, mpc, persons, fall_detections, p, matched_persons, outsideMatch>>

\* the person is appended with the state found
MatchAppend ==
    /\ mpc = "dets"
    /\ d > Len(fall_detections)
    /\ matched_persons' =
          Append(matched_persons,
                 [bbox |-> persons[p].bbox,
                  is_fall |-> is_fall,
                  confidence |-> persons[p].confidence,
                  fall_confidence |-> fall_conf,
                  class_name |-> IF is_fall THEN "fall" ELSE "normal",
                  iou |-> best_iou])
    /\ p' = p + 1
    /\ mpc' = "person"
    /\ UNCHANGED <<iou_threshold, persons, fall_detections, d, is_fall, fall_conf, best_iou,
                   outsideMatch>>

MatchReturn ==
    /\ mpc = "person"
    /\ p > Len(persons)
    /\ mpc' = "done"
    /\ UNCHANGED <<iou_threshold, persons, fall_detections, p, d, is_fall, fall_conf,
                   best_iou, matched_persons, outsideMatch>>

\* _match_detections called with any persons and any fall/normal boxes
InitMatch ==
    /\ FsmIdle
    /\ ComponentsOff
    /\ iou_threshold \in ThresholdPool
    /\ mpc = "person"
    /\ persons \in SeqsUpTo(PersonPool, MaxPersons)
    /\ fall_detections \in SeqsUpTo(DetectionPool, MaxDets)
    /\ p = 1
    /\ d = 1
    /\ is_fall = FALSE
    /\ fall_conf = 0
    /\ best_iou = <<0, 1>>
    /\ matched_persons = <<>>

NextMatch ==
    \/ MatchBegin
    \/ MatchDetection
    \/ MatchAppend
    \/ MatchReturn

SpecMatch == InitMatch /\ [][NextMatch]_vars

\* ------------------------------------------------------- detect_frame
\* _detect_persons: [] without a person model
DetectPersons == IF person_model THEN raw_persons ELSE <<>>

\* _detect_falls: [] without a fall model
DetectFalls == IF fall_model THEN raw_falls ELSE <<>>

\* the largest element of a set of confidences, 0.0 for none
MaxConfidence(S) == IF S = {} THEN 0 ELSE CHOOSE x \in S : \A y \in S : y <= x

\* mutant: the confidence of the last fallen person is reported, not the largest
StatisticsLastFall(ps) ==
    LET fallen == {k \in 1..Len(ps) : ps[k].is_fall}
    IN [fall_detected |-> fallen # {},
        confidence |-> IF fallen = {} THEN 0
                       ELSE ps[CHOOSE k \in fallen : \A j \in fallen : j <= k].fall_confidence,
        persons |-> ps,
        fall_count |-> Cardinality(fallen),
        normal_count |-> Len(ps) - Cardinality(fallen),
        total_persons |-> Len(ps)]

\* the statistics loop over the persons of the frame
Statistics(ps) ==
    LET fallen == {k \in 1..Len(ps) : ps[k].is_fall}
    IN [fall_detected |-> fallen # {},
        confidence |-> MaxConfidence({ps[k].fall_confidence : k \in fallen}),
        persons |-> ps,
        fall_count |-> Cardinality(fallen),
        normal_count |-> Len(ps) - Cardinality(fallen),
        total_persons |-> Len(ps)]

\* _detect_single_stage: every box of the fall model is a person
SingleStage ==
    IF ~fall_model THEN EmptyResult
    ELSE Statistics([k \in 1..Len(raw_falls) |->
                        [bbox |-> raw_falls[k].bbox,
                         is_fall |-> raw_falls[k].is_fall,
                         confidence |-> raw_falls[k].confidence,
                         fall_confidence |-> IF raw_falls[k].is_fall
                                             THEN raw_falls[k].confidence ELSE 0,
                         class_name |-> IF raw_falls[k].is_fall THEN "fall" ELSE "normal"]])

\* the two-stage branch is taken
TwoStage == use_two_stage /\ person_model

\* single-stage mode: not self.use_two_stage or self.person_model is None
DetectSingleStage ==
    /\ dpc = "call"
    /\ ~TwoStage
    /\ result' = SingleStage
    /\ dpc' = "returned"
    /\ UNCHANGED <<use_two_stage, person_model, fall_model, raw_persons, raw_falls,
                   outsideFrame, matchVars>>

\* mutant: without a person box the frame is classified by the fall model alone
DetectNoPersonsUngated ==
    /\ dpc = "call"
    /\ TwoStage
    /\ DetectPersons = <<>>
    /\ result' = SingleStage
    /\ dpc' = "returned"
    /\ UNCHANGED <<use_two_stage, person_model, fall_model, raw_persons, raw_falls,
                   outsideFrame, matchVars>>

\* first stage found nobody: the empty result, the fall model is not run
DetectNoPersons ==
    /\ dpc = "call"
    /\ TwoStage
    /\ DetectPersons = <<>>
    /\ result' = EmptyResult
    /\ dpc' = "returned"
    /\ UNCHANGED <<use_two_stage, person_model, fall_model, raw_persons, raw_falls,
                   outsideFrame, matchVars>>

\* second stage: the fall model runs and _match_detections is entered
DetectStageTwo ==
    /\ dpc = "call"
    /\ TwoStage
    /\ DetectPersons # <<>>
    /\ persons' = DetectPersons
    /\ fall_detections' = DetectFalls
    /\ mpc' = "person"
    /\ p' = 1
    /\ matched_persons' = <<>>
    /\ dpc' = "matching"
    /\ UNCHANGED <<use_two_stage, person_model, fall_model, raw_persons, raw_falls, result,
                   iou_threshold, d, is_fall, fall_conf, best_iou, outsideFrame>>

\* _match_detections returned: statistics and the result
DetectReturn ==
    /\ dpc = "matching"
    /\ mpc = "done"
    /\ result' = Statistics(matched_persons)
    /\ dpc' = "returned"
    /\ UNCHANGED <<use_two_stage, person_model, fall_model, raw_persons, raw_falls,
                   outsideFrame, matchVars>>

\* detect_frame called on any frame by a detector in any configuration; the
\* person model is only loaded in two-stage configuration, and a model that
\* is not loaded returns nothing
InitFrame ==
    /\ FsmIdle
    /\ RangeOff
    /\ GaitOff
    /\ ExtrasOff
    /\ iou_threshold \in ThresholdPool
    /\ mpc = "off"
    /\ persons = <<>>
    /\ fall_detections = <<>>
    /\ p = 1
    /\ d = 1
    /\ is_fall = FALSE
    /\ fall_conf = 0
    /\ best_iou = <<0, 1>>
    /\ matched_persons = <<>>
    /\ use_two_stage \in BOOLEAN
    /\ person_model \in BOOLEAN
    /\ fall_model \in BOOLEAN
    /\ person_model => use_two_stage
    /\ raw_persons \in SeqsUpTo(PersonPool, MaxPersons)
    /\ raw_falls \in SeqsUpTo(DetectionPool, MaxDets)
    /\ ~person_model => raw_persons = <<>>
    /\ ~fall_model => raw_falls = <<>>
    /\ dpc = "call"
    /\ result = EmptyResult

NextFrame ==
    \/ DetectSingleStage
    \/ DetectNoPersons
    \/ DetectStageTwo
    \/ MatchBegin
    \/ MatchDetection
    \/ MatchAppend
    \/ MatchReturn
    \/ DetectReturn

SpecFrame == InitFrame /\ [][NextFrame]_vars

\* ------------------------------------- the personal range engine (src/app.py)
\* Metric values and baselines are whole units; a returned range is in
\* hundredths of a unit (round(x, 2)).  The arithmetic is exact: a quartile
\* of whole values is a multiple of 1/4 and a fence a multiple of 1/8, and a
\* bound of a personalised range is a number (P + Q * sqrt(N)) / L, kept as
\* the record [P, Q, N, L] until it is rounded.
ValuePool == {-2, 0, 1, 2}
HardPool == {NoLimits, <<0, 2>>, <<1, 2>>}
BasePool == {<<0, 10>>, <<-10, -5>>}
MetricTypes == {"normal", "lower_better"}

Abs(x) == IF x >= 0 THEN x ELSE -x

RECURSIVE Sum(_)
Sum(s) == IF s = <<>> THEN 0 ELSE Head(s) + Sum(Tail(s))

\* s is sorted: v goes after the elements that are not larger
InsertSorted(s, v) ==
    LET k == Cardinality({j \in 1..Len(s) : s[j] <= v})
    IN SubSeq(s, 1, k) \o <<v>> \o SubSeq(s, k + 1, Len(s))

RECURSIVE Sorted(_)
Sorted(s) == IF s = <<>> THEN <<>> ELSE InsertSorted(Sorted(Tail(s)), Head(s))

\* 4 * np.percentile(a, q) for q = 25, 75: linear interpolation between the
\* order statistics around the position (n - 1) * q / 100
Percentile4(a, q) ==
    LET s == Sorted(a)
        n == Len(s)
        h == (n - 1) * q
        lo == h \div 100
        quarters == (h % 100) \div 25
        hi == Min(lo + 1, n - 1)
    IN 4 * s[lo + 1] + quarters * (s[hi + 1] - s[lo + 1])

\* mutant: the lower hard bound is not tested
FilterHardUpperOnly(vs, limits) ==
    IF limits = NoLimits THEN vs
    ELSE SelectSeq(vs, LAMBDA v : v <= limits[2])

\* stage 1, skipped without hard limits: hard_min <= v <= hard_max
FilterHard(vs, limits) ==
    IF limits = NoLimits THEN vs
    ELSE SelectSeq(vs, LAMBDA v : limits[1] <= v /\ v <= limits[2])

\* mutant: the fences are exclusive
FilterIqrExclusive(vs) ==
    IF Len(vs) >= 4
    THEN LET q1 == Percentile4(vs, 25)
             q3 == Percentile4(vs, 75)
             iqr == q3 - q1
         IN SelectSeq(vs, LAMBDA v : 2 * q1 - 3 * iqr < 8 * v /\ 8 * v < 2 * q3 + 3 * iqr)
    ELSE vs

\* stage 2, with at least 4 values: q1 - 1.5 * iqr <= v <= q3 + 1.5 * iqr
\* (both sides times 8)
FilterIqr(vs) ==
    IF Len(vs) >= 4
    THEN LET q1 == Percentile4(vs, 25)
             q3 == Percentile4(vs, 75)
             iqr == q3 - q1
         IN SelectSeq(vs, LAMBDA v : 2 * q1 - 3 * iqr <= 8 * v /\ 8 * v <= 2 * q3 + 3 * iqr)
    ELSE vs

filter_outliers(vs, limits, use_iqr) ==
    IF vs = <<>> THEN NothingFiltered
    ELSE LET stage1 == FilterHard(vs, limits)
             stage2 == IF use_iqr THEN FilterIqr(stage1) ELSE stage1
         IN [filtered |-> stage2,
             outlier_count |-> (Len(vs) - Len(stage1)) + (Len(stage1) - Len(stage2))]

\* floor(sqrt(m)) by bisection, with lo * lo <= m < hi * hi
RECURSIVE IsqrtBetween(_, _, _)
IsqrtBetween(m, lo, hi) ==
    IF hi - lo <= 1 THEN lo
    ELSE LET mid == (lo + hi) \div 2
         IN IF mid * mid <= m THEN IsqrtBetween(m, mid, hi) ELSE IsqrtBetween(m, lo, mid)

Isqrt(m) == IsqrtBetween(m, 0, Min(m + 1, 46340))

\* np.mean and np.std of n values of sum S: mean = S / n and
\* std^2 = mean((v - mean)^2) = Dev / n^3, Dev the sum of the (n * v - S)^2
SqDev(vs) ==
    LET n == Len(vs)
        S == Sum(vs)
    IN Sum([k \in 1..n |-> (n * vs[k] - S) * (n * vs[k] - S)])

\* mutant: the floor is 10% of |mean| also for mean = 0
EffectiveStdNoZeroCase(S, Dev, n) ==
    IF 100 * Dev >= n * S * S THEN <<Dev \div n, 1>> ELSE <<S * S, 10>>

\* min_std = abs(mean) * 0.1 if mean != 0 else 1.0;  std = max(std, min_std)
\* the result is sqrt(N) / (n * K), returned as <<N, K>>
EffectiveStd(S, Dev, n) ==
    IF S # 0
    THEN IF 100 * Dev >= n * S * S THEN <<Dev \div n, 1>> ELSE <<S * S, 10>>
    ELSE IF Dev >= n * n * n THEN <<Dev \div n, 1>> ELSE <<n * n, 1>>

\* mean - 1.5 * std >= 0
PersonalMinNonneg(S, n, std) ==
    S >= 0 /\ 4 * S * S * std[2] * std[2] >= 9 * std[1]

\* 100 * (0.7 * (mean + sign * 1.5 * std) + 0.3 * base), sign = -1 or 1
Blend(base, S, n, std, sign) ==
    [P |-> 30 * base * n * std[2] + 70 * S * std[2], Q |-> sign * 105,
     N |-> std[1], L |-> n * std[2]]

\* 100 * (0.7 * 0 + 0.3 * base)
BlendZero(base) == [P |-> 30 * base, Q |-> 0, N |-> 0, L |-> 1]

\* (P + Q * sqrt(N)) / L >= 0
SurdNonneg(x) ==
    IF x.Q >= 0 THEN x.P >= 0 \/ x.P * x.P <= x.Q * x.Q * x.N
    ELSE x.P >= 0 /\ x.P * x.P >= x.Q * x.Q * x.N

\* mutant: the final lower bound is not floored again
FinalFloorNone(mt, x) == x

\* if metric_type == 'lower_better': final_min = max(0, final_min)
FinalFloor(mt, x) ==
    IF mt = "lower_better" /\ ~SurdNonneg(x) THEN BlendZero(0) ELSE x

\* round(x, 2) for x = (P + Q * sqrt(N)) / L hundredths: the nearest whole
\* number of hundredths; exactly half way between two, the binary value of
\* the float decides, so either neighbour can result
RoundSet(x) ==
    LET T == 4 * x.Q * x.Q * x.N
        r == Isqrt(T)
        exact == r * r = T
        num == IF x.Q >= 0 THEN 2 * x.P + x.L + r
               ELSE IF exact THEN 2 * x.P + x.L - r
               ELSE 2 * x.P + x.L - r - 1
        k == num \div (2 * x.L)
    IN IF exact /\ num % (2 * x.L) = 0 THEN {k - 1, k} ELSE {k}

\* the results calculate_dynamic_range can return
calculate_dynamic_range(vs, base, mt, limits) ==
    LET f == filter_outliers(vs, limits, TRUE)
        valid_values == IF f.filtered = <<>> THEN vs ELSE f.filtered
        n == Len(valid_values)
        S == Sum(valid_values)
        std == EffectiveStd(S, SqDev(valid_values), n)
        blended_min == IF mt = "lower_better" /\ ~PersonalMinNonneg(S, n, std)
                       THEN BlendZero(base[1])
                       ELSE Blend(base[1], S, n, std, -1)
        final_min == FinalFloor(mt, blended_min)
        final_max == Blend(base[2], S, n, std, 1)
    IN IF n < 5
       THEN {[range |-> <<100 * base[1], 100 * base[2]>>, personal |-> FALSE,
              outlier_count |-> f.outlier_count]}
       ELSE {[range |-> <<lo, hi>>, personal |-> TRUE, outlier_count |-> f.outlier_count] :
                lo \in RoundSet(final_min), hi \in RoundSet(final_max)}

\* filter_outliers(values, hard_limits, use_iqr=True)
FilterCall ==
    /\ rpc = "call"
    /\ filter_out' = filter_outliers(values, hard_limits, TRUE)
    /\ rpc' = "filtered"
    /\ UNCHANGED <<values, hard_limits, base_range, metric_type, refilter_out, range_out,
                   outsideRange>>

\* filter_outliers applied to the list it returned, with the same hard limits
FilterAgain ==
    /\ rpc = "filtered"
    /\ refilter_out' = filter_outliers(filter_out.filtered, hard_limits, TRUE)
    /\ rpc' = "refiltered"
    /\ UNCHANGED <<values, hard_limits, base_range, metric_type, filter_out, range_out,
                   outsideRange>>

\* calculate_dynamic_range(values, base_range, metric_type, hard_limits)
RangeCall ==
    /\ rpc = "call"
    /\ range_out' \in calculate_dynamic_range(values, base_range, metric_type, hard_limits)
    /\ rpc' = "ranged"
    /\ UNCHANGED <<values, hard_limits, base_range, metric_type, filter_out, refilter_out,
                   outsideRange>>

\* filter_outliers called on any history of up to MaxHistory values, then on
\* the list it returned
InitFilter ==
    /\ FsmIdle
    /\ MatchOff
    /\ FrameOff
    /\ GaitOff
    /\ ExtrasOff
    /\ values \in SeqsUpTo(ValuePool, MaxHistory)
    /\ hard_limits \in HardPool
    /\ base_range = <<0, 0>>
    /\ metric_type = "normal"
    /\ rpc = "call"
    /\ filter_out = NothingFiltered
    /\ refilter_out = NothingFiltered
    /\ range_out = [range |-> <<0, 0>>, personal |-> FALSE, outlier_count |-> 0]

NextFilter ==
    \/ FilterCall
    \/ FilterAgain

SpecFilter == InitFilter /\ [][NextFilter]_vars

\* calculate_dynamic_range called on any history of up to MaxHistory values
InitRange ==
    /\ FsmIdle
    /\ MatchOff
    /\ FrameOff
    /\ GaitOff
    /\ ExtrasOff
    /\ values \in SeqsUpTo(ValuePool, MaxHistory)
    /\ hard_limits \in HardPool
    /\ base_range \in BasePool
    /\ metric_type \in MetricTypes
    /\ rpc = "call"
    /\ filter_out = NothingFiltered
    /\ refilter_out = NothingFiltered
    /\ range_out = [range |-> <<0, 0>>, personal |-> FALSE, outlier_count |-> 0]

NextRange == RangeCall

SpecRange == InitRange /\ [][NextRange]_vars

\* ------------------------- gait analysis (src/backend/gait_analysis.py)
\* Coordinates are ten-thousandths of the normalised image size, angles are
\* tenths of a degree, frames are numbered from 0 as the rows of the
\* DataFrame are.  A frame record holds the ankle columns and, in place of
\* the hip, knee and shoulder columns, the angles the code derives from them
\* for the frame (calculate_angle for the knees, calc_torso_angle for the
\* torso); an angle is NaN when one of its landmarks is missing.

default_window_length == 11
polyorder == 2
distance == 10

GaitFpsPool == {25, 30}

Pose(lax, lay, rax, ray, lk, rk, ta) ==
    [LEFT_ANKLE_x |-> lax, LEFT_ANKLE_y |-> lay,
     RIGHT_ANKLE_x |-> rax, RIGHT_ANKLE_y |-> ray,
     left_angle |-> lk, right_angle |-> rk, Torso_Angle |-> ta]

MissingPose == Pose(NaN, NaN, NaN, NaN, NaN, NaN, NaN)

\* frame f of a subject who walks across the image, the feet alternating
WalkPose(f) ==
    Pose(4000 + 200 * (f \div 2), 8000 + 100 * (f % 2),
         4100 + 200 * ((f + 1) \div 2), 8000 + 100 * ((f + 1) % 2),
         1700 - 100 * (f % 3), 1700 - 100 * ((f + 1) % 3), 20 + 5 * (f % 2))

\* the trajectories analysed: a subject standing still, one drifting steadily
\* through the image, one walking, one walking but detected in every other
\* frame only, and one whose landmarks were never detected
TrajectoryKinds == {"still", "ramp", "walk", "gappy", "blank"}

PoseAt(kind, f) ==
    CASE kind = "still" -> Pose(4000, 8000, 6000, 8000, 1750, 1750, 20)
      [] kind = "ramp" -> Pose(4000 + 100 * f, 8000 + 10 * f, 6000 + 100 * f, 8000 + 10 * f,
                               1750 - 10 * f, 1750, 20 + f)
      [] kind = "walk" -> WalkPose(f)
      [] kind = "gappy" -> IF f % 2 = 0 THEN MissingPose ELSE WalkPose(f)
      [] kind = "blank" -> MissingPose

Trajectory(kind, n) == [k \in 1..n |-> PoseAt(kind, k - 1)]

Column(kp, name) == [k \in 1..Len(kp) |-> kp[k][name]]

\* mutant: a missing sample takes the sample before it, filled or not
ffillOneStep(s) ==
    [k \in 1..Len(s) |-> IF s[k] # NaN \/ k = 1 THEN s[k] ELSE s[k - 1]]

\* Series.ffill(): a missing sample takes the value carried from before it
ffill(s) ==
    LET F[k \in 0..Len(s)] ==
            IF k = 0 THEN <<>>
            ELSE Append(F[k - 1],
                        IF s[k] # NaN \/ k = 1 THEN s[k] ELSE F[k - 1][k - 1])
    IN F[Len(s)]

Reversed(s) == [k \in 1..Len(s) |-> s[Len(s) + 1 - k]]

\* Series.bfill(): a missing sample takes the value carried from after it
bfill(s) == Reversed(ffill(Reversed(s)))

\* the samples pandas' mean, max and min look at (skipna)
Present(s) == SelectSeq(s, LAMBDA v : v # NaN)

SeqMax(s) == CHOOSE v \in {s[k] : k \in 1..Len(s)} : \A k \in 1..Len(s) : s[k] <= v
SeqMin(s) == CHOOSE v \in {s[k] : k \in 1..Len(s)} : \A k \in 1..Len(s) : s[k] >= v

\* max() - min() of a column, NaN when no sample is present
Spread(s) == IF Present(s) = <<>> THEN NaN ELSE SeqMax(Present(s)) - SeqMin(Present(s))

\* round(num / den, ndigits) for num / den counted in units of the last
\* digit kept: the nearest integers; at an exact half the binary value of the
\* float decides
RoundRatio(num, den) ==
    LET q == num \div den
    IN {k \in {q, q + 1} : (2 * k - 1) * den <= 2 * num /\ 2 * num <= (2 * k + 1) * den}

\* mutant: the coefficient is cut off after the first decimal
RoundSqrtRatioDown(D, S) == {Isqrt(1000000 * D) \div S}

\* round(sqrt(D) / S * 100, 1) in tenths, D and S positive integers
RoundSqrtRatio(D, S) ==
    LET q == Isqrt(1000000 * D) \div S
    IN {k \in {q, q + 1} :
           /\ 2 * k - 1 <= 0 \/ ((2 * k - 1) * S) * ((2 * k - 1) * S) <= 4000000 * D
           /\ 4000000 * D <= ((2 * k + 1) * S) * ((2 * k + 1) * S)}

\* calculate_torso_stability: mean tilt and mean absolute frame-to-frame change
\* of the tilt, as ratios <<num, den>> of tenths of a degree, NoRatio for NaN
\* (angle_std, which no metric reads, is left out); on a DataFrame without
\* rows, DataFrame.apply returns a frame that the column assignment of line
\* 268 rejects or accepts depending on the pandas version
calculate_torso_stability(kp) ==
    LET a == Column(kp, "Torso_Angle")
        present == Present(a)
        pairs == {k \in 2..Len(a) : a[k] # NaN /\ a[k - 1] # NaN}
        change == [k \in 1..Len(a) |-> IF k \in pairs THEN Abs(a[k] - a[k - 1]) ELSE 0]
        info == [mean_angle |-> IF present = <<>> THEN NoRatio
                                ELSE <<Sum(present), Len(present)>>,
                 stability |-> IF pairs = {} THEN NoRatio
                               ELSE <<Sum(change), Cardinality(pairs)>>]
    IN IF Len(kp) = 0
       THEN {[raised |-> TRUE, info |-> NoTorso], [raised |-> FALSE, info |-> info]}
       ELSE {[raised |-> FALSE, info |-> info]}

\* lines 52-57: the window of the smoothing filter for n samples
window_length(n) ==
    IF n < default_window_length
    THEN Max(3, IF n % 2 = 1 THEN n ELSE n - 1)
    ELSE default_window_length

\* signal.savgol_filter (mode 'interp') raises ValueError unless the window
\* fits into the data and exceeds the polynomial order
savgol_accepts(w, n) == w <= n /\ polyorder < w

RECURSIVE Ascending(_)
Ascending(S) ==
    IF S = {} THEN <<>>
    ELSE LET m == CHOOSE x \in S : \A y \in S : x <= y
         IN <<m>> \o Ascending(S \ {m})

\* signal.find_peaks(x, prominence=0.005, distance=10) on the smoothed,
\* detrended signal: which maxima the signal has is not computed, the result
\* is any set of interior frames at least `distance` apart.  A signal that is
\* constant, linear in the frame number or NaN throughout has no peak: the
\* degree-2 filter reproduces a line, a line minus its rolling mean never
\* decreases, and rounding noise is far below the prominence
find_peaks(s) ==
    IF \A k \in 2..(Len(s) - 1) : s[k + 1] - s[k] = s[k] - s[k - 1] THEN {<<>>}
    ELSE {Ascending(S) : S \in {T \in SUBSET (1..(Len(s) - 2)) :
                                   \A x, y \in T : x # y => Abs(x - y) >= distance}}

\* np.diff
Diff(v) == IF Len(v) < 2 THEN <<>> ELSE [k \in 1..(Len(v) - 1) |-> v[k + 1] - v[k]]

\* lines 88-118: the dict built from the events of the two sides; cycles are
\* kept as frame gaps (a duration is gap / fps), their means as ratios
\* <<num, den>> of seconds, the cadence as a ratio of steps per minute
CycleInfo(valleys_left, valleys_right, n, fps_) ==
    LET gait_cycles_right == Diff(valleys_right)
        gait_cycles_left == Diff(valleys_left)
        total_steps == Len(valleys_left) + Len(valleys_right)
    IN [gait_cycles_right |-> gait_cycles_right,
        gait_cycles_left |-> gait_cycles_left,
        mean_gait_cycle_right |->
            IF Len(gait_cycles_right) > 0
            THEN <<Sum(gait_cycles_right), Len(gait_cycles_right) * fps_>> ELSE NoRatio,
        mean_gait_cycle_left |->
            IF Len(gait_cycles_left) > 0
            THEN <<Sum(gait_cycles_left), Len(gait_cycles_left) * fps_>> ELSE NoRatio,
        first_gait_cycle_frame |->
            IF Len(valleys_right) > 1 THEN valleys_right[2]
            ELSE IF Len(valleys_left) > 1 THEN valleys_left[2]
            ELSE None,
        valleys_left |-> valleys_left,
        valleys_right |-> valleys_right,
        cadence |-> IF n > 0 THEN <<total_steps * fps_ * 60, n>> ELSE NoRatio]

\* detect_gait_cycles: every outcome of one call, with the invocations of the
\* smoothing filter it made; the filter is invoked for the right ankle first,
\* and an invocation that raises ends the call
detect_gait_cycles(kp, fps_) ==
    LET right_ankle_y == bfill(ffill(Column(kp, "RIGHT_ANKLE_y")))
        left_ankle_y == bfill(ffill(Column(kp, "LEFT_ANKLE_y")))
        n == Len(right_ankle_y)
        w == window_length(n)
        call == [window_length |-> w, samples |-> n]
    IN IF w < 3
       THEN {[raised |-> FALSE, calls |-> <<>>, info |-> NoCycles]}
       ELSE IF ~savgol_accepts(w, n)
       THEN {[raised |-> TRUE, calls |-> <<call>>, info |-> NoCycles]}
       ELSE {[raised |-> FALSE, calls |-> <<call, call>>,
              info |-> CycleInfo(vl, vr, Len(kp), fps_)] :
                 vl \in find_peaks(left_ankle_y), vr \in find_peaks(right_ankle_y)}

InSeq(v, s) == \E k \in 1..Len(s) : s[k] = v

\* calculate_step_lengths: the horizontal displacements between adjacent
\* foot contacts that exceed the noise floor of 0.001
calculate_step_lengths(kp, info) ==
    LET left_ankle_x == bfill(ffill(Column(kp, "LEFT_ANKLE_x")))
        right_ankle_x == bfill(ffill(Column(kp, "RIGHT_ANKLE_x")))
        all_valleys == Sorted(info.valleys_left \o info.valleys_right)
        XAt(frame) == IF InSeq(frame, info.valleys_left) THEN left_ankle_x[frame + 1]
                      ELSE right_ankle_x[frame + 1]
        StepAt(k) ==
            LET current_frame == all_valleys[k]
                previous_frame == all_valleys[k - 1]
            IN IF current_frame >= Len(left_ankle_x) \/ previous_frame >= Len(left_ankle_x)
               THEN NaN
               ELSE IF XAt(current_frame) = NaN \/ XAt(previous_frame) = NaN THEN NaN
               ELSE Abs(XAt(current_frame) - XAt(previous_frame))
        steps == IF Len(all_valleys) < 2 THEN <<>>
                 ELSE [k \in 1..(Len(all_valleys) - 1) |-> StepAt(k + 1)]
    IN SelectSeq(steps, LAMBDA v : v > 10)

\* calculate_swing_amplitude: twice mean_swing, NaN when a side has no sample
calculate_swing_amplitude(kp) ==
    LET right_swing == Spread(bfill(ffill(Column(kp, "RIGHT_ANKLE_y"))))
        left_swing == Spread(bfill(ffill(Column(kp, "LEFT_ANKLE_y"))))
    IN IF right_swing = NaN \/ left_swing = NaN THEN NaN ELSE right_swing + left_swing

\* calculate_knee_angles: the range of the defined angles of each knee
calculate_knee_angles(kp) ==
    LET left_knee_angles == Present(Column(kp, "left_angle"))
        right_knee_angles == Present(Column(kp, "right_angle"))
    IN [left_knee_range |-> IF left_knee_angles # <<>>
                            THEN SeqMax(left_knee_angles) - SeqMin(left_knee_angles)
                            ELSE None,
        right_knee_range |-> IF right_knee_angles # <<>>
                             THEN SeqMax(right_knee_angles) - SeqMin(right_knee_angles)
                             ELSE None]

\* mutant: the difference of the means is taken relative to the left mean
symmetry_index_of_left(mr, ml) ==
    IF ml[1] > 0
    THEN RoundRatio(1000 * Abs(mr[1] * ml[2] - ml[1] * mr[2]), ml[1] * mr[2])
    ELSE {0}

\* lines 330-332: round(abs(mr - ml) / avg_cycle * 100, 1) in tenths, for the
\* means mr and ml of the two sides, 0 when avg_cycle is not positive
symmetry_index(mr, ml) ==
    LET twice_avg == mr[1] * ml[2] + ml[1] * mr[2]
    IN IF twice_avg > 0
       THEN RoundRatio(2000 * Abs(mr[1] * ml[2] - ml[1] * mr[2]), twice_avg)
       ELSE {0}

\* calculate_gait_metrics: every (measurements, has_valid_gait) the call can
\* return; cadence, symmetry index, variability, torso tilt and knee range
\* are in tenths, cycle time and torso stability in thousandths, step length
\* and swing amplitude in ten-thousandths
calculate_gait_metrics(kp, torso, info, fps_) ==
    LET valid == Len(info.valleys_left) >= 2 \/ Len(info.valleys_right) >= 2
        mr == info.mean_gait_cycle_right
        ml == info.mean_gait_cycle_left
        both == mr # NoRatio /\ ml # NoRatio /\ valid
        \* avg_cycle = twice_avg[1] / (2 * twice_avg[2])
        twice_avg == <<mr[1] * ml[2] + ml[1] * mr[2], mr[2] * ml[2]>>
        combined == info.gait_cycles_right \o info.gait_cycles_left
        S == Sum(combined)
        D == Len(combined) * Sum([k \in 1..Len(combined) |-> combined[k] * combined[k]]) - S * S
        step_lengths == calculate_step_lengths(kp, info)
        twice_swing == calculate_swing_amplitude(kp)
        knee_info == calculate_knee_angles(kp)
        Cadence == IF info.cadence # NoRatio /\ valid
                   THEN RoundRatio(10 * info.cadence[1], info.cadence[2]) ELSE {None}
        CycleTime == IF both THEN RoundRatio(1000 * twice_avg[1], 2 * twice_avg[2])
                     ELSE {None}
        Symmetry == IF both THEN symmetry_index(mr, ml) ELSE {None}
        Variability == IF Len(combined) > 1 /\ valid
                       THEN IF S > 0
                            THEN IF D = 0 THEN {0} ELSE RoundSqrtRatio(D, S)
                            ELSE {0}
                       ELSE {None}
        Stability == IF torso.stability # NoRatio
                     THEN RoundRatio(100 * torso.stability[1], torso.stability[2])
                     ELSE {None}
        Tilt == IF torso.stability # NoRatio /\ torso.mean_angle # NoRatio
                   /\ torso.mean_angle[1] # 0
                THEN RoundRatio(torso.mean_angle[1], torso.mean_angle[2])
                ELSE {None}
        StepLength == IF step_lengths # <<>>
                      THEN RoundRatio(Sum(step_lengths), Len(step_lengths)) ELSE {None}
        Swing == IF twice_swing # NaN /\ twice_swing > 0
                 THEN RoundRatio(twice_swing, 2) ELSE {None}
        KneeRom == IF knee_info.left_knee_range # None /\ knee_info.right_knee_range # None
                   THEN RoundRatio(knee_info.left_knee_range + knee_info.right_knee_range, 2)
                   ELSE {None}
    IN {[measurements |->
            [cadence |-> c, cycle_time |-> t, symmetry_index |-> y, variability |-> v,
             torso_stability |-> b, torso_tilt |-> a, step_length |-> l,
             swing_amplitude |-> g, knee_rom |-> r],
         has_valid_gait |-> valid] :
           c \in Cadence, t \in CycleTime, y \in Symmetry, v \in Variability,
           b \in Stability, a \in Tilt, l \in StepLength, g \in Swing, r \in KneeRom}

\* analyze_gait, line 416
TorsoCall ==
    /\ gpc = "call"
    /\ \E out \in calculate_torso_stability(keypoints) :
          /\ torso_info' = out.info
          /\ gpc' = IF out.raised THEN "torso_raised" ELSE "torso"
    /\ UNCHANGED <<keypoints, gait_fps, savgol_calls, gait_cycle_info, measurements,
                   has_valid_gait, outsideGait>>

\* analyze_gait, line 419
CyclesCall ==
    /\ gpc = "torso"
    /\ \E out \in detect_gait_cycles(keypoints, gait_fps) :
          /\ savgol_calls' = out.calls
          /\ gait_cycle_info' = out.info
          /\ gpc' = IF out.raised THEN "cycles_raised" ELSE "cycles"
    /\ UNCHANGED <<keypoints, gait_fps, torso_info, measurements, has_valid_gait,
                   outsideGait>>

\* analyze_gait, lines 422-424
MetricsCall ==
    /\ gpc = "cycles"
    /\ \E out \in calculate_gait_metrics(keypoints, torso_info, gait_cycle_info, gait_fps) :
          /\ measurements' = out.measurements
          /\ has_valid_gait' = out.has_valid_gait
    /\ gpc' = "measured"
    /\ UNCHANGED <<keypoints, gait_fps, torso_info, savgol_calls, gait_cycle_info,
                   outsideGait>>

\* analyze_gait called on a trajectory of up to MaxFrames frames
InitGait ==
    /\ FsmIdle
    /\ MatchOff
    /\ FrameOff
    /\ RangeOff
    /\ ExtrasOff
    /\ \E kind \in TrajectoryKinds, n \in 0..MaxFrames : keypoints = Trajectory(kind, n)
    /\ gait_fps \in GaitFpsPool
    /\ gpc = "call"
    /\ torso_info = NoTorso
    /\ savgol_calls = <<>>
    /\ gait_cycle_info = NoCycles
    /\ measurements = NoMeasurements
    /\ has_valid_gait = FALSE

NextGait ==
    \/ TorsoCall
    \/ CyclesCall
    \/ MetricsCall

SpecGait == InitGait /\ [][NextGait]_vars

\* the frame gaps between the events of one analysis: all 0 (events that
\* coincide), a fast walk, and two slow walks whose cycles differ by 1 frame
GapBands == {{0}, {10, 11, 12}, {600, 601}, {1000, 1001}}

\* the events of one side: the first at frame 1, the others the gaps apart
EventsOf(gaps) == [k \in 1..(Len(gaps) + 1) |-> 1 + Sum(SubSeq(gaps, 1, k - 1))]

\* what detect_gait_cycles reports for a recording with the given gaps
\* between the events of each side, the last event 2 frames before the end
InfoOf(gaps_left, gaps_right, fps_) ==
    LET valleys_left == IF gaps_left = <<>> THEN <<>> ELSE EventsOf(gaps_left)
        valleys_right == IF gaps_right = <<>> THEN <<>> ELSE EventsOf(gaps_right)
    IN CycleInfo(valleys_left, valleys_right,
                 3 + Max(Sum(gaps_left), Sum(gaps_right)), fps_)

\* calculate_gait_metrics called with the cycles of any recording of up to
\* MaxCycles cycles a side and with the first frames of its trajectory:
\* events past the end of the DataFrame are skipped by line 154
InitMetrics ==
    /\ FsmIdle
    /\ MatchOff
    /\ FrameOff
    /\ RangeOff
    /\ ExtrasOff
    /\ keypoints = Trajectory("walk", 3)
    /\ gait_fps \in GaitFpsPool
    /\ gpc = "cycles"
    /\ torso_info \in {out.info : out \in calculate_torso_stability(keypoints)}
    /\ savgol_calls = <<>>
    /\ \E band \in GapBands :
          \E gaps_left, gaps_right \in SeqsUpTo(band, MaxCycles) :
             gait_cycle_info = InfoOf(gaps_left, gaps_right, gait_fps)
    /\ measurements = NoMeasurements
    /\ has_valid_gait = FALSE

NextMetrics == MetricsCall

SpecMetrics == InitMetrics /\ [][NextMetrics]_vars

\* ------------------------------ gap filling of one column of a trajectory
SamplePool == {NaN, 4000, 4100}

\* lines 48-49 and 135-136: column.ffill().bfill()
FillCall ==
    /\ fpc = "call"
    /\ filled' = bfill(ffill(series))
    /\ fpc' = "filled"
    /\ UNCHANGED <<series, refilled, outsideFill>>

\* the same on the filled column
FillAgain ==
    /\ fpc = "filled"
    /\ refilled' = bfill(ffill(filled))
    /\ fpc' = "refilled"
    /\ UNCHANGED <<series, filled, outsideFill>>

\* any column of up to MaxSeries samples, each present or missing
InitFill ==
    /\ FsmIdle
    /\ MatchOff
    /\ FrameOff
    /\ RangeOff
    /\ GaitOff
    /\ ExtractOff
    /\ WaveOff
    /\ TwinOff
    /\ IouOff
    /\ StatsOff
    /\ AuthOff
    /\ series \in SeqsUpTo(SamplePool, MaxSeries)
    /\ fpc = "call"
    /\ filled = <<>>
    /\ refilled = <<>>

NextFill ==
    \/ FillCall
    \/ FillAgain

SpecFill == InitFill /\ [][NextFill]_vars

\* ---------------- keypoint records (pose_detection.py and processing.py)
\* Confidences are tenths, coordinates are hundredths of the image size.  A
\* pose result is the sequence of its landmarks [x, y, conf], numbered from 0
\* as in the code (landmark idx is element idx + 1), or NoPose for None.  A
\* keypoint record holds the frame number and, per landmark name it has
\* columns for, the four columns _x, _y, _z, _visibility.

REQUIRED_KEYPOINTS ==
    {"LEFT_ANKLE", "RIGHT_ANKLE", "LEFT_SHOULDER", "RIGHT_SHOULDER",
     "LEFT_HIP", "RIGHT_HIP", "LEFT_KNEE", "RIGHT_KNEE", "NOSE"}

YOLO_KEYPOINT_NAMES ==
    <<"NOSE", "LEFT_EYE", "RIGHT_EYE", "LEFT_EAR", "RIGHT_EAR",
      "LEFT_SHOULDER", "RIGHT_SHOULDER", "LEFT_ELBOW", "RIGHT_ELBOW",
      "LEFT_WRIST", "RIGHT_WRIST", "LEFT_HIP", "RIGHT_HIP",
      "LEFT_KNEE", "RIGHT_KNEE", "LEFT_ANKLE", "RIGHT_ANKLE">>

\* MockPoseLandmark.name of processing.py
landmark_names ==
    <<"NOSE", "LEFT_EYE_INNER", "LEFT_EYE", "LEFT_EYE_OUTER",
      "RIGHT_EYE_INNER", "RIGHT_EYE", "RIGHT_EYE_OUTER", "LEFT_EAR",
      "RIGHT_EAR", "MOUTH_LEFT", "MOUTH_RIGHT", "LEFT_SHOULDER",
      "RIGHT_SHOULDER", "LEFT_ELBOW", "RIGHT_ELBOW", "LEFT_WRIST",
      "RIGHT_WRIST", "LEFT_PINKY", "RIGHT_PINKY", "LEFT_INDEX",
      "RIGHT_INDEX", "LEFT_THUMB", "RIGHT_THUMB", "LEFT_HIP",
      "RIGHT_HIP", "LEFT_KNEE", "RIGHT_KNEE", "LEFT_ANKLE",
      "RIGHT_ANKLE", "LEFT_HEEL", "RIGHT_HEEL", "LEFT_FOOT_INDEX",
      "RIGHT_FOOT_INDEX">>

\* the acceptance threshold 0.3 of extract_keypoints
conf_threshold == 3

\* results is None
NoPose == <<>>

\* extract_keypoints returned None
NoRecord == [frame |-> None, landmarks |-> <<>>]

\* the landmarks whose confidence varies, and the values it takes
WeakLandmarks == {0, 1, 15, 16}
WeakConfidences == {2, 3, 4}

\* a person detected with confidence 0.9 in every landmark but one
PoseWith(weak, conf) ==
    [k \in 1..Len(YOLO_KEYPOINT_NAMES) |->
        [x |-> 30 + k, y |-> 20 + 2 * k, conf |-> IF k - 1 = weak THEN conf ELSE 9]]

PosePool == {NoPose} \cup {PoseWith(w, c) : w \in WeakLandmarks, c \in WeakConfidences}

\* detect_pose of processing.py: 33 landmarks, all with visibility 1.0
MockResults ==
    [k \in 1..Len(landmark_names) |-> [x |-> 50 + (k - 1), y |-> 50 + (k - 1), conf |-> 10]]

\* extract_keypoints(results, frame_number)
extract_keypoints(results, frame_number) ==
    IF results = NoPose THEN NoRecord
    ELSE LET accepted == {k \in 1..Len(results) :
                             /\ YOLO_KEYPOINT_NAMES[k] \in REQUIRED_KEYPOINTS
                             /\ results[k].conf > conf_threshold}
             names == {YOLO_KEYPOINT_NAMES[k] : k \in accepted}
             IdxOf(name) == CHOOSE k \in accepted : YOLO_KEYPOINT_NAMES[k] = name
         IN IF \A kp \in REQUIRED_KEYPOINTS : kp \in names
            THEN [frame |-> frame_number,
                  landmarks |-> [name \in names |->
                      [x |-> results[IdxOf(name)].x, y |-> results[IdxOf(name)].y,
                       z |-> 0, visibility |-> results[IdxOf(name)].conf]]]
            ELSE NoRecord

\* lines 98-109 of processing.py: the record process_video builds for a frame
video_record(results, frame_number) ==
    LET wanted == {k \in 1..Len(results) : landmark_names[k] \in REQUIRED_KEYPOINTS}
        names == {landmark_names[k] : k \in wanted}
        IdxOf(name) == CHOOSE k \in wanted : landmark_names[k] = name
    IN IF \A kp \in REQUIRED_KEYPOINTS : kp \in names
       THEN [frame |-> frame_number,
             landmarks |-> [name \in names |->
                 [x |-> results[IdxOf(name)].x, y |-> results[IdxOf(name)].y,
                  z |-> 0, visibility |-> results[IdxOf(name)].conf]]]
       ELSE NoRecord

\* extract_keypoints called for the next frame
ExtractCall ==
    /\ epc = "run"
    /\ extractor = "extract_keypoints"
    /\ frames_read < Len(pose_results)
    /\ frames_read' = frames_read + 1
    /\ returned' = Append(returned, extract_keypoints(pose_results[frames_read'], frames_read'))
    /\ UNCHANGED <<extractor, pose_results, epc, keypoints_list, outsideExtract>>

\* one pass of the frame loop of process_video
VideoFrame ==
    /\ epc = "run"
    /\ extractor = "process_video"
    /\ frames_read < Len(pose_results)
    /\ frames_read' = frames_read + 1
    /\ LET keypoints_ == video_record(pose_results[frames_read'], frames_read')
       IN keypoints_list' = IF keypoints_ # NoRecord THEN Append(keypoints_list, keypoints_)
                            ELSE keypoints_list
    /\ UNCHANGED <<extractor, pose_results, epc, returned, outsideExtract>>

\* extract_keypoints called frame by frame on any detector output, or
\* process_video run on a video of up to MaxPoseFrames frames
InitExtract ==
    /\ FsmIdle
    /\ MatchOff
    /\ FrameOff
    /\ RangeOff
    /\ GaitOff
    /\ FillOff
    /\ WaveOff
    /\ TwinOff
    /\ IouOff
    /\ StatsOff
    /\ AuthOff
    /\ extractor \in {"extract_keypoints", "process_video"}
    /\ pose_results \in SeqsUpTo(PosePool \cup {MockResults}, MaxPoseFrames)
    /\ extractor = "extract_keypoints" =>
          \A k \in 1..Len(pose_results) : pose_results[k] \in PosePool
    /\ extractor = "process_video" =>
          \A k \in 1..Len(pose_results) : pose_results[k] = MockResults
    /\ epc = "run"
    /\ frames_read = 0
    /\ returned = <<>>
    /\ keypoints_list = <<>>

NextExtract ==
    \/ ExtractCall
    \/ VideoFrame

SpecExtract == InitExtract /\ [][NextExtract]_vars

\* ------------------------------------------------- helpers of the claims
NumSamples == Len(frame_results)
LastResult == frame_results[NumSamples]

\* the sampled frames with lo <= frame index <= hi
SamplesIn(lo, hi) ==
    {k \in 1..NumSamples : frame_results[k].frame >= lo /\ frame_results[k].frame <= hi}

RECURSIVE SumConfidence(_)
SumConfidence(S) ==
    IF S = {} THEN 0
    ELSE LET k == CHOOSE x \in S : TRUE
         IN frame_results[k].confidence + SumConfidence(S \ {k})

\* the raw flags of the n sampled frames up to and including the j-th
RecentFlags(j, n) == [x \in 1..n |-> frame_results[j - n + x].fall_detected]

RawTrueCount == Cardinality({k \in 1..NumSamples : frame_results[k].fall_detected})

\* the last event of the list was emitted at end of stream
TrailingEmitted ==
    /\ pc = "done"
    /\ in_fall_event
    /\ fall_events # <<>>
    /\ fall_events[Len(fall_events)].start_frame = fall_event_start_frame

\* the stream of the current call processed alone, from fresh working memory
RECURSIVE RunAlone(_)
RunAlone(k) ==
    IF k = 0 THEN FreshLocals(cooldown_frames)
    ELSE FrameStep(RunAlone(k - 1), frame_results[k].frame,
                   [fall_detected |-> frame_results[k].fall_detected,
                    confidence |-> frame_results[k].confidence])

AloneEvents == Flush(RunAlone(NumSamples), i)

\* ----------------------------------------------------------------- claims

\* the fall/normal boxes whose IoU with person box b exceeds the threshold
AboveThreshold(b) ==
    {j \in 1..Len(fall_detections) :
        RatioGt(calculate_iou(b, fall_detections[j].bbox), iou_threshold)}

\* the best-overlapping of them (the first, among equals)
BestOverlap(b) ==
    CHOOSE j \in AboveThreshold(b) :
        \A k \in AboveThreshold(b) :
            LET ij == calculate_iou(b, fall_detections[j].bbox)
                ik == calculate_iou(b, fall_detections[k].bbox)
            IN ~RatioGt(ik, ij) /\ (ik = ij => j <= k)

\* C1 (as claimed): a matched person is is_fall exactly when the box with the
\* highest IoU above iou_threshold is classed fall, and then fall_confidence
\* is that box's confidence; a best-overlapping normal box makes the person
\* normal even if a less-overlapping box above the threshold is classed fall.
C1_BestOverlapDecides ==
    \A k \in 1..Len(matched_persons) :
        LET m == matched_persons[k]
            A == AboveThreshold(m.bbox)
        IN /\ m.is_fall = (A # {} /\ fall_detections[BestOverlap(m.bbox)].is_fall)
           /\ m.is_fall => m.fall_confidence = fall_detections[BestOverlap(m.bbox)].confidence

\* C2 (as claimed): in detect_frames_buffer any two consecutively emitted
\* events are at least the 2.0 s cooldown apart in original time:
\* (start_frame of the later - end_frame of the earlier) / fps >= 2.0.
C2_CooldownSeconds ==
    mode = "buffer" =>
        \A j \in 1..(Len(fall_events) - 1) :
            fall_events[j + 1].start_frame - fall_events[j].end_frame >= 2 * fps

\* C3 (as claimed): every event emitted by detect_frames_buffer spans at
\* least the 1.0 s minimum duration: (end_frame - start_frame) / fps >= 1.0.
C3_MinDurationSeconds ==
    mode = "buffer" =>
        \A j \in 1..Len(fall_events) :
            fall_events[j].end_frame - fall_events[j].start_frame >= 1 * fps

\* C4: on the timeline fps = 30, skip = 1, frames 0..140, raw flag true on
\* 30..75 and 91..140, the state machine reports exactly one event.
C4_TimelineOneEvent ==
    pc = "done" => Len(fall_events) = 1

C4_Witness ==
    /\ pc = "done"
    /\ NumSamples = 141
    /\ Len(fall_events) = 1
    /\ fall_events[1].start_frame < 76
    /\ fall_events[1].end_frame > 90

\* C5: a stream with exactly one raw-true sampled frame (anywhere) has no event.
C5_SingleTrueFrameNoEvent ==
    (mode = "buffer" /\ RawTrueCount = 1) => fall_events = <<>>

C5_Witness ==
    /\ pc = "done"
    /\ mode = "buffer"
    /\ RawTrueCount = 1
    /\ NumSamples >= 5
    /\ frame_results[1].fall_detected
    /\ fall_events = <<>>

\* C6: after every sampled frame (k sampled so far) the vote window is the
\* last min(k, N) raw flags in arrival order, N = max(5, floor(fps * 1.5 /
\* skip)); the frame's smoothed flag is true iff the window holds at least 3
\* flags and at least half are true; it is false on the first two frames.
C6_VoteWindow ==
    (mode = "buffer" /\ pc # "idle") =>
        LET N == Max(5, (3 * fps) \div (2 * skip_frames))
            Recent(j) == RecentFlags(j, Min(j, N))
            w == Recent(NumSamples)
        IN /\ detection_window = w
           /\ NumSamples >= 1 =>
                 /\ LastResult.smoothed_fall_detected
                        = (Len(w) >= 3 /\ 2 * Trues(w) >= Len(w))
                 /\ NumSamples <= 2 => ~LastResult.smoothed_fall_detected

C6_Witness ==
    /\ mode = "buffer"
    /\ NumSamples > window_size
    /\ Len(detection_window) = window_size
    /\ LastResult.smoothed_fall_detected
    /\ ~LastResult.fall_detected
    /\ frame_results[1].fall_detected

\* C7: when the stream ends in an event, a trailing event is emitted iff
\* (final frame of the buffer - start frame) meets the mid-stream threshold
\* min_fall_frames * skip_frames, and it ends at the final frame of the buffer;
\* when the stream ends in idle nothing is added.
C7_TrailingEvent ==
    [][(pc = "loop" /\ pc' = "done" /\ mode = "buffer") =>
          LET last == i - 1
              n == Len(fall_events)
          IN IF in_fall_event /\ last - fall_event_start_frame >= min_fall_frames * skip_frames
             THEN /\ Len(fall_events') = n + 1
                  /\ SubSeq(fall_events', 1, n) = fall_events
                  /\ fall_events'[n + 1].start_frame = fall_event_start_frame
                  /\ fall_events'[n + 1].end_frame = last
             ELSE fall_events' = fall_events]_vars

C7_Witness ==
    /\ mode = "buffer"
    /\ TrailingEmitted
    /\ fall_events[Len(fall_events)].end_frame = i - 1
    /\ LastResult.frame < i - 1

\* C8: when an event in progress meets a smoothed-false frame: emitted => the
\* cooldown counter is 0; discarded => the event list is unchanged and the
\* counter is not reset (it only took the frame's tick, and is past the
\* cooldown, so the next smoothed-true frame can open an event); either way
\* idle, start frame cleared, confidence sum and count zero.
C8_CloseEvent ==
    [][(pc = "loop" /\ in_fall_event /\ Len(frame_results') = NumSamples + 1
          /\ ~frame_results'[NumSamples + 1].smoothed_fall_detected) =>
          /\ ~in_fall_event'
          /\ fall_event_start_frame' = NoFrame
          /\ fall_event_confidence_sum' = 0
          /\ fall_event_frame_count' = 0
          /\ IF Len(fall_events') > Len(fall_events)
             THEN frames_since_last_event' = 0
             ELSE /\ fall_events' = fall_events
                  /\ frames_since_last_event' = frames_since_last_event + 1
                  /\ frames_since_last_event' >= cooldown_frames]_vars

\* an event was just discarded as too short
C8_Witness ==
    /\ pc = "loop"
    /\ NumSamples >= 2
    /\ ~LastResult.smoothed_fall_detected
    /\ frame_results[NumSamples - 1].smoothed_fall_detected
    /\ ~in_fall_event
    /\ frames_since_last_event > cooldown_frames
    /\ fall_events = <<>>
    /\ fall_event_start_frame = NoFrame

\* C9: an event's confidence is the mean of the per-frame peak confidence over
\* the sampled frames from its start frame up to the closing frame (exclusive;
\* inclusive of the last sampled frame for a trailing event); the running
\* count is 1 on entry, one more per later frame, never 0 at the division.
C9_MeanConfidence ==
    (mode = "buffer" /\ pc # "idle") =>
        /\ \A j \in 1..Len(fall_events) :
              LET e == fall_events[j]
                  S == IF j = Len(fall_events) /\ TrailingEmitted
                       THEN SamplesIn(e.start_frame, e.end_frame)
                       ELSE SamplesIn(e.start_frame, e.end_frame - 1)
              IN /\ e.confidence_count = Cardinality(S)
                 /\ e.confidence_count >= 1
                 /\ e.confidence_sum = SumConfidence(S)
        /\ in_fall_event =>
              LET S == SamplesIn(fall_event_start_frame, LastResult.frame)
              IN /\ fall_event_frame_count = Cardinality(S)
                 /\ fall_event_frame_count >= 1
                 /\ fall_event_confidence_sum = SumConfidence(S)

\* an emitted event whose frames include one without a raw detection
C9_Witness ==
    /\ mode = "buffer"
    /\ pc = "loop"
    /\ fall_events # <<>>
    /\ fall_events[1].confidence_count >= 2
    /\ fall_events[1].confidence_sum > 0
    /\ fall_events[1].confidence_sum < 6 * fall_events[1].confidence_count

\* C10: the events reported for a stream are those of the stream processed
\* alone on a fresh detector, whatever was processed before on the singleton.
C10_NoStateAcrossCalls ==
    (pc = "done" /\ mode = "buffer") => fall_events = AloneEvents

\* a second call that reports an event although the first ended in a cooldown
C10_Witness ==
    /\ pc = "done"
    /\ mode = "buffer"
    /\ calls = 2
    /\ leftover
    /\ fall_events # <<>>
    /\ fall_events[1].start_frame < cooldown_frames * skip_frames

\* C11: the events of one stream are ordered in time and do not overlap:
\* every event has start_frame < end_frame, and each event starts strictly
\* after the end of the event before it.
C11_EventsOrdered ==
    /\ \A j \in 1..Len(fall_events) :
          fall_events[j].start_frame < fall_events[j].end_frame
    /\ \A j \in 1..(Len(fall_events) - 1) :
          fall_events[j + 1].start_frame > fall_events[j].end_frame

\* a finished stream with two events, the second one emitted at end of stream
C11_Witness ==
    /\ pc = "done"
    /\ mode = "buffer"
    /\ Len(fall_events) = 2
    /\ TrailingEmitted
    /\ fall_events[2].start_frame > fall_events[1].end_frame

\* the IoU of person box b and the j-th fall/normal box is at most the threshold
AtMostThreshold(b, j) ==
    LET iou == calculate_iou(b, fall_detections[j].bbox)
    IN iou[1] * iou_threshold[2] <= iou_threshold[1] * iou[2]

\* C12: a person whose every fall/normal box has IoU <= iou_threshold (equal
\* to the threshold included, no box at all included) is reported with
\* is_fall false, fall_confidence 0.0 and best overlap 0.0; a reported overlap
\* other than 0.0 is strictly greater than the threshold.
C12_ThresholdExclusive ==
    \A k \in 1..Len(matched_persons) :
        LET m == matched_persons[k]
        IN /\ (\A j \in 1..Len(fall_detections) : AtMostThreshold(m.bbox, j)) =>
                 /\ ~m.is_fall
                 /\ m.fall_confidence = 0
                 /\ m.iou[1] = 0
                 /\ m.class_name = "normal"
           /\ m.iou[1] # 0 =>
                 m.iou[1] * iou_threshold[2] > iou_threshold[1] * m.iou[2]

\* a person reported normal although a box classed fall overlaps it with an
\* IoU exactly equal to the threshold
C12_Witness ==
    /\ mpc = "done"
    /\ Len(matched_persons) = 1
    /\ ~matched_persons[1].is_fall
    /\ matched_persons[1].iou[1] = 0
    /\ \E j \in 1..Len(fall_detections) :
          LET iou == calculate_iou(persons[1].bbox, fall_detections[j].bbox)
          IN /\ fall_detections[j].is_fall
             /\ iou[1] > 0
             /\ iou[1] * iou_threshold[2] = iou_threshold[1] * iou[2]

\* a person box and a box classed fall whose IoU exceeds the threshold
GatedFall ==
    \E a \in 1..Len(raw_persons), b \in 1..Len(raw_falls) :
        LET iou == calculate_iou(raw_persons[a].bbox, raw_falls[b].bbox)
        IN /\ raw_falls[b].is_fall
           /\ iou[1] * iou_threshold[2] > iou_threshold[1] * iou[2]

\* C13: in two-stage mode detect_frame reports fall_detected only if a person
\* box and a box classed fall overlap with IoU above iou_threshold; when the
\* person detector returns no box the result is fall_detected false with zero
\* persons, whatever the fall/normal detector returns.
C13_FallGatedByPerson ==
    (dpc = "returned" /\ TwoStage) =>
        /\ result.fall_detected => GatedFall
        /\ raw_persons = <<>> =>
              /\ ~result.fall_detected
              /\ result.persons = <<>>
              /\ result.total_persons = 0
              /\ result.fall_count = 0

\* no person box, a box classed fall from the fall model, and no fall reported
C13_Witness ==
    /\ dpc = "returned"
    /\ TwoStage
    /\ fall_model
    /\ raw_persons = <<>>
    /\ \E b \in 1..Len(raw_falls) : raw_falls[b].is_fall
    /\ ~result.fall_detected
    /\ result.total_persons = 0

\* the values the range is derived from: the filtered ones, all of them when
\* none is left
ValidValues ==
    LET f == filter_outliers(values, hard_limits, TRUE).filtered
    IN IF f = <<>> THEN values ELSE f

\* C14 (as claimed): with fewer than 5 values left after outlier filtering,
\* none at all included, calculate_dynamic_range returns the supplied baseline
\* range, not blended.
C14_BaselineBelowFive ==
    (rpc = "ranged" /\ Len(filter_outliers(values, hard_limits, TRUE).filtered) < 5) =>
        /\ range_out.range = <<100 * base_range[1], 100 * base_range[2]>>
        /\ ~range_out.personal

\* v passes the hard limits of the call
InHardBounds(v) ==
    hard_limits = NoLimits \/ (hard_limits[1] <= v /\ v <= hard_limits[2])

\* the positions of the input values that pass the hard limits
InBound == {j \in 1..Len(values) : InHardBounds(values[j])}

\* C15 (as claimed): filter_outliers applied to the list it returned, with the
\* same hard bounds and IQR enabled, returns the same list and removes nothing.
C15_Idempotent ==
    (rpc = "refiltered" /\ hard_limits # NoLimits) =>
        /\ refilter_out.filtered = filter_out.filtered
        /\ refilter_out.outlier_count = 0

\* C15 (amended): the returned list lies within the hard bounds, so a second
\* pass removes nothing for them; and when the IQR stage of the first pass
\* removed no value, the second pass returns the same list and counts zero
\* outliers.
C15_IdempotentWithoutIqrRemoval ==
    rpc = "refiltered" =>
        /\ \A k \in 1..Len(filter_out.filtered) : InHardBounds(filter_out.filtered[k])
        /\ Len(filter_out.filtered) = Cardinality(InBound) =>
              /\ refilter_out.filtered = filter_out.filtered
              /\ refilter_out.outlier_count = 0

\* a first pass that removed values for the hard bounds only, from a history
\* whose survivors differ, and a second pass that changed nothing
C15_Witness ==
    /\ rpc = "refiltered"
    /\ hard_limits # NoLimits
    /\ filter_out.outlier_count >= 1
    /\ Len(filter_out.filtered) = Cardinality(InBound)
    /\ Len(filter_out.filtered) >= 4
    /\ \E k \in 1..Len(filter_out.filtered) : filter_out.filtered[k] # filter_out.filtered[1]
    /\ refilter_out.filtered = filter_out.filtered
    /\ refilter_out.outlier_count = 0

\* C16 (as claimed): with at least 5 valid values, for every baseline with
\* base_min <= base_max and both metric types, the returned range has
\* final_min <= final_max, and final_min >= 0 for lower_better metrics.
C16_RangeOrdered ==
    (/\ rpc = "ranged"
     /\ Len(filter_outliers(values, hard_limits, TRUE).filtered) >= 5
     /\ base_range[1] <= base_range[2]) =>
        /\ range_out.range[1] <= range_out.range[2]
        /\ metric_type = "lower_better" => range_out.range[1] >= 0

\* C16 (amended): whenever a personalised range is derived, for every
\* baseline with base_min <= base_max: a normal metric has final_min <=
\* final_max; a lower_better metric has final_min >= 0, and final_min <=
\* final_max provided base_max >= 0 and the mean of the values the range is
\* derived from is >= 0.
C16_RangeOrderedNonNegative ==
    (rpc = "ranged" /\ range_out.personal /\ base_range[1] <= base_range[2]) =>
        /\ metric_type = "normal" => range_out.range[1] <= range_out.range[2]
        /\ metric_type = "lower_better" =>
              /\ range_out.range[1] >= 0
              /\ (base_range[2] >= 0 /\ range_out.range[1] > range_out.range[2]) =>
                    Sum(ValidValues) < 0

\* a lower_better range from at least 5 valid values after an outlier was
\* removed, whose lower bound was floored at 0
C16_Witness ==
    /\ rpc = "ranged"
    /\ range_out.personal
    /\ metric_type = "lower_better"
    /\ range_out.outlier_count >= 1
    /\ Len(filter_outliers(values, hard_limits, TRUE).filtered) >= 5
    /\ base_range[2] >= 0
    /\ Sum(ValidValues) > 0
    /\ range_out.range[1] = 0
    /\ range_out.range[2] > 0

\* the k-th smallest of the input values at the positions A
OrderStat(A, k) ==
    CHOOSE x \in {values[j] : j \in A} :
        /\ Cardinality({j \in A : values[j] < x}) < k
        /\ k <= Cardinality({j \in A : values[j] <= x})

\* 4 * quartile q (1 or 3) of the values at the positions A, interpolated
\* linearly between the order statistics around position (n - 1) * q / 4
Quartile4(A, q) ==
    LET n == Cardinality(A)
        lo == ((n - 1) * q) \div 4
        fr == ((n - 1) * q) % 4
    IN 4 * OrderStat(A, lo + 1)
       + fr * (OrderStat(A, Min(lo + 2, n)) - OrderStat(A, lo + 1))

\* the positions filter_outliers has to keep
Kept ==
    LET A == InBound
        q1 == Quartile4(A, 1)
        q3 == Quartile4(A, 3)
    IN IF Cardinality(A) >= 4
       THEN {j \in A : /\ 8 * values[j] >= 2 * q1 - 3 * (q3 - q1)
                       /\ 8 * values[j] <= 2 * q3 + 3 * (q3 - q1)}
       ELSE A

\* the input values at the positions K, in their original order
ValuesAt(K) ==
    [k \in 1..Cardinality(K) |->
        values[CHOOSE j \in K : Cardinality({x \in K : x <= j}) = k]]

\* C17: filter_outliers returns exactly the input values, in their original
\* order, that lie within the inclusive hard bounds and, when at least 4
\* values pass the bounds, within the inclusive fences [Q1 - 1.5 IQR,
\* Q3 + 1.5 IQR] of the linearly interpolated quartiles of those that pass;
\* with fewer than 4 no in-bound value is dropped; the outlier count is input
\* length minus output length, the sum of what the two stages removed.
C17_FilterExact ==
    rpc = "filtered" =>
        LET A == InBound
            K == Kept
        IN /\ filter_out.filtered = ValuesAt(K)
           /\ Cardinality(A) < 4 => filter_out.filtered = ValuesAt(A)
           /\ filter_out.outlier_count = Len(values) - Len(filter_out.filtered)
           /\ filter_out.outlier_count =
                 (Len(values) - Cardinality(A)) + (Cardinality(A) - Cardinality(K))

\* both stages removed a value, the fences one from between values that stay
C17_Witness ==
    /\ rpc = "filtered"
    /\ hard_limits # NoLimits
    /\ Cardinality(InBound) < Len(values)
    /\ Len(filter_out.filtered) < Cardinality(InBound)
    /\ \E a \in Kept, b \in InBound \ Kept, c \in Kept : a < b /\ b < c

\* a <= g * g, for a below 2^31 and any g
AtMostSquare(a, g) == Abs(g) > 46000 \/ a <= g * g

\* q * sqrt(N) >= g   and   q * sqrt(N) <= g
SqrtGe(q, N, g) ==
    IF q >= 0 THEN g <= 0 \/ ~AtMostSquare(q * q * N + 1, g)
    ELSE g <= 0 /\ AtMostSquare(q * q * N, g)

SqrtLe(q, N, g) ==
    IF q >= 0 THEN g >= 0 /\ AtMostSquare(q * q * N, g)
    ELSE g >= 0 \/ ~AtMostSquare(q * q * N + 1, g)

\* k is x = (P + Q * sqrt(N)) / L rounded to a whole number: |k - x| <= 1/2
Rounds(k, x) ==
    /\ SqrtGe(2 * x.Q, x.N, (2 * k - 1) * x.L - 2 * x.P)
    /\ SqrtLe(2 * x.Q, x.N, (2 * k + 1) * x.L - 2 * x.P)

\* 100 * (0.7 * (mean + sign * 1.5 * max(std, floor)) + 0.3 * base) for the
\* values vs, with std^2 = mean of the squares - mean^2 and floor = 0.1 *
\* |mean|, or 1.0 for mean = 0; for sign = -1 and lower_better the personal
\* bound and the result are floored at 0
ClaimedBound(vs, base, sign, lower_better) ==
    LET n == Len(vs)
        S == Sum(vs)
        D2 == n * Sum([k \in 1..n |-> vs[k] * vs[k]]) - S * S
        data == IF S # 0 THEN 100 * D2 >= S * S ELSE D2 >= n * n
        personal_negative ==
            IF data THEN ~(S >= 0 /\ 4 * S * S >= 9 * D2) ELSE S <= 0
        x == IF sign = -1 /\ lower_better /\ personal_negative
             THEN [P |-> 30 * base, Q |-> 0, N |-> 0, L |-> 1]
             ELSE IF data
             THEN [P |-> 30 * base * n + 70 * S, Q |-> sign * 105, N |-> D2, L |-> n]
             ELSE IF S # 0
             THEN [P |-> 600 * base * n + 1400 * S + sign * 210 * Abs(S),
                   Q |-> 0, N |-> 0, L |-> 20 * n]
             ELSE [P |-> 30 * base + sign * 105, Q |-> 0, N |-> 0, L |-> 1]
    IN IF sign = -1 /\ lower_better /\ ~SurdNonneg(x)
       THEN [P |-> 0, Q |-> 0, N |-> 0, L |-> 1]
       ELSE x

\* each returned bound is the blend of the personal and the baseline bound,
\* rounded to hundredths
BoundsAreBlends(vs) ==
    /\ Rounds(range_out.range[1],
              ClaimedBound(vs, base_range[1], -1, metric_type = "lower_better"))
    /\ Rounds(range_out.range[2], ClaimedBound(vs, base_range[2], 1, FALSE))

\* twice the hundredths of 0.7 * (v + sign * spread) + 0.3 * base, for a
\* spread given in twentieths of a unit (3 |v| for 0.15 |v|), the lower
\* bound floored at 0 for lower_better
TwiceClosedForm(v, spread20, base, sign, lower_better) ==
    LET personal == 140 * v + sign * 7 * spread20
        floored == IF sign = -1 /\ lower_better THEN Max(0, personal) ELSE personal
        final == floored + 60 * base
    IN IF sign = -1 /\ lower_better THEN Max(0, final) ELSE final

\* the values are all the same
Identical(vs) == \A k \in 1..Len(vs) : vs[k] = vs[1]

\* the range is the closed form for the spread, rounded, and not the point v
IdenticalRange(v, spread20) ==
    /\ Abs(2 * range_out.range[1]
           - TwiceClosedForm(v, spread20, base_range[1], -1, metric_type = "lower_better")) <= 1
    /\ Abs(2 * range_out.range[2]
           - TwiceClosedForm(v, spread20, base_range[2], 1, FALSE)) <= 1
    /\ range_out.range # <<100 * v, 100 * v>>

\* C18 (as claimed): with at least 5 valid values each returned bound is
\* round(0.7 * personal bound + 0.3 * baseline bound, 2), the personal bounds
\* being mean -/+ 1.5 * max(std, 0.1 |mean|) (1.0 for mean = 0), the lower
\* ones floored at 0 for lower_better; for n >= 5 identical values v the
\* range is [0.7 (v - 0.15 |v|) + 0.3 base_min, 0.7 (v + 0.15 |v|) + 0.3
\* base_max], never the point v.
C18_BlendedBounds ==
    rpc = "ranged" =>
        LET vs == filter_outliers(values, hard_limits, TRUE).filtered
        IN Len(vs) >= 5 =>
              /\ BoundsAreBlends(vs)
              /\ Identical(vs) => IdenticalRange(vs[1], 3 * Abs(vs[1]))

\* C18 (amended): as claimed, but n >= 5 identical values v = 0 give the
\* range [0.7 * (-1.5) + 0.3 base_min, 0.7 * 1.5 + 0.3 base_max]: the spread
\* is 0.15 |v| for v # 0 and 1.5 for v = 0.
C18_BlendedBoundsZeroCase ==
    rpc = "ranged" =>
        LET vs == filter_outliers(values, hard_limits, TRUE).filtered
        IN Len(vs) >= 5 =>
              /\ BoundsAreBlends(vs)
              /\ Identical(vs) =>
                    IdenticalRange(vs[1], IF vs[1] # 0 THEN 3 * Abs(vs[1]) ELSE 30)

\* a history of identical zeros within the hard limits: the range is the
\* baseline blended with [-1.5, 1.5]
C18_Witness ==
    /\ rpc = "ranged"
    /\ range_out.personal
    /\ hard_limits # NoLimits
    /\ metric_type = "normal"
    /\ Len(filter_outliers(values, hard_limits, TRUE).filtered) >= 5
    /\ \A k \in 1..Len(values) : values[k] = 0
    /\ range_out.range = <<30 * base_range[1] - 105, 30 * base_range[2] + 105>>


\* C19: when neither side has at least 2 foot-contact events,
\* calculate_gait_metrics marks every derived metric undefined: cadence, cycle
\* time, symmetry index, variability coefficient, torso stability, torso
\* tilt, step length, swing amplitude and knee range of motion
C19_InvalidGaitAllUndefined ==
    (/\ gpc = "measured"
     /\ Len(gait_cycle_info.valleys_left) < 2
     /\ Len(gait_cycle_info.valleys_right) < 2) =>
        \A metric \in DOMAIN measurements : measurements[metric] = None

\* C20: for a trajectory of fewer than 3 frames detect_gait_cycles returns the
\* empty 'no cycles' result instead of failing, and for every trajectory length
\* the smoothing filter is only invoked with an odd window length w with
\* 3 <= w <= number of samples, the largest odd value <= min(11, samples)
C20_ShortTrajectoryNoCycles ==
    gpc \in {"cycles", "cycles_raised", "measured"} =>
        /\ Len(keypoints) < 3 => gpc # "cycles_raised" /\ gait_cycle_info = NoCycles
        /\ \A k \in 1..Len(savgol_calls) :
              LET w == savgol_calls[k].window_length
                  most == Min(11, savgol_calls[k].samples)
              IN /\ w % 2 = 1
                 /\ 3 <= w
                 /\ w <= most
                 /\ w + 2 > most


\* the positions of the present samples before position k
EarlierPresent(k) == {j \in 1..(k - 1) : series[j] # NaN}
AllPresent == {j \in 1..Len(series) : series[j] # NaN}
Greatest(S) == CHOOSE x \in S : \A y \in S : y <= x
Least(S) == CHOOSE x \in S : \A y \in S : x <= y

\* C21: gap filling leaves every present sample unchanged, replaces a missing
\* sample that has an earlier present sample by the nearest earlier present
\* value, replaces a missing sample of a leading gap by the first present
\* value, leaves no gap when a sample is present, and is idempotent
C21_GapFilling ==
    /\ fpc \in {"filled", "refilled"} =>
          /\ Len(filled) = Len(series)
          /\ \A k \in 1..Len(series) :
                /\ series[k] # NaN => filled[k] = series[k]
                /\ (series[k] = NaN /\ EarlierPresent(k) # {}) =>
                      filled[k] = series[Greatest(EarlierPresent(k))]
                /\ (series[k] = NaN /\ EarlierPresent(k) = {} /\ AllPresent # {}) =>
                      filled[k] = series[Least(AllPresent)]
                /\ AllPresent # {} => filled[k] # NaN
    /\ fpc = "refilled" => refilled = filled

\* a column with a leading gap and with a gap of two samples after two
\* different present samples has been filled twice
C21_Witness ==
    /\ fpc = "refilled"
    /\ Len(series) = 5
    /\ series[1] = NaN
    /\ series[2] # NaN
    /\ series[3] # NaN
    /\ series[3] # series[2]
    /\ series[4] = NaN
    /\ series[5] = NaN
    /\ filled = <<series[2], series[2], series[3], series[3], series[3]>>


\* the required landmarks a pose result reports above the threshold
Accepted(results) ==
    {YOLO_KEYPOINT_NAMES[k] : k \in {j \in 1..Len(results) :
        YOLO_KEYPOINT_NAMES[j] \in REQUIRED_KEYPOINTS /\ 10 * results[j].conf > 3 * 10}}

\* C22: a frame in which a required landmark has confidence at or below 0.3
\* is not dropped: it has a record at its position that lacks that landmark
\* and keeps the others; a landmark is in a record only if its confidence
\* strictly exceeded the threshold
C22_FrameKeptLandmarkAbsent ==
    /\ \A k \in 1..Len(returned) :
          pose_results[k] # NoPose =>
              /\ returned[k].frame = k
              /\ DOMAIN returned[k].landmarks = Accepted(pose_results[k])
    /\ \A k \in 1..Len(returned) : \A name \in DOMAIN returned[k].landmarks :
          returned[k].landmarks[name].visibility > 3
    /\ \A k \in 1..Len(keypoints_list) : \A name \in DOMAIN keypoints_list[k].landmarks :
          keypoints_list[k].landmarks[name].visibility > 3


\* the pooled cycles, in frames
Pooled == gait_cycle_info.gait_cycles_right \o gait_cycle_info.gait_cycles_left

\* the sum over the pairs of pooled cycles of their squared difference,
\* which is n^2 times their variance
PairSpread ==
    Sum([k \in 1..(Len(Pooled) * Len(Pooled)) |->
            LET a == Pooled[1 + ((k - 1) \div Len(Pooled))]
                b == Pooled[1 + ((k - 1) % Len(Pooled))]
            IN IF a < b THEN (b - a) * (b - a) ELSE 0])

AllIdentical == \A j, k \in 1..Len(Pooled) : Pooled[j] = Pooled[k]

\* calculate_gait_metrics was given at least 2 pooled cycles, all positive
PooledCase ==
    /\ gpc = "measured"
    /\ Len(Pooled) >= 2
    /\ \A k \in 1..Len(Pooled) : Pooled[k] > 0

\* C23 as claimed: with at least 2 pooled positive cycle durations the
\* reported variability coefficient is >= 0 and is 0 if and only if all
\* pooled durations are identical
C23_VariabilityZeroIffIdentical ==
    PooledCase =>
        /\ measurements.variability >= 0
        /\ measurements.variability = 0 <=> AllIdentical

\* C23 amended: the reported coefficient is >= 0, is 0 when all pooled
\* durations are identical, and is 0 for durations that differ only when
\* the unrounded coefficient std / mean * 100 is at most 0.05
C23_VariabilityZeroWhenRoundedAway ==
    PooledCase =>
        /\ measurements.variability >= 0
        /\ AllIdentical => measurements.variability = 0
        /\ (measurements.variability = 0 /\ ~AllIdentical) =>
              4000000 * PairSpread <= Sum(Pooled) * Sum(Pooled)

\* cycles of 1000 and 1001 frames were pooled: the coefficient 0.04998 is
\* reported as 0.0
C23_Witness ==
    /\ PooledCase
    /\ ~AllIdentical
    /\ measurements.variability = 0


\* the mean cycle durations a side can have, as ratios <<num, den>> of seconds
MeansOf(band) ==
    {<<Sum(gaps), Len(gaps) * gait_fps>> : gaps \in SeqsUpTo(band, MaxCycles) \ {<<>>}}

\* a mean of cycles as <<frames, cycles>>: the fps cancels in a comparison
Frames(a) == <<a[1], a[2] \div gait_fps>>

\* |a - b| and a + b for two ratios, over the denominator a[2] * b[2]
RatioGap(a, b) == Abs(a[1] * b[2] - b[1] * a[2])
RatioSum(a, b) == a[1] * b[2] + b[1] * a[2]

\* the means a and b have the same sum as c and d, and a gap at least as large
SameSum(a, b, mr, ml) ==
    RatioSum(Frames(a), Frames(b)) * Frames(mr)[2] * Frames(ml)[2]
        = RatioSum(Frames(mr), Frames(ml)) * Frames(a)[2] * Frames(b)[2]
WiderBy(a, b, mr, ml) ==
    RatioGap(Frames(a), Frames(b)) * Frames(mr)[2] * Frames(ml)[2]
        - RatioGap(Frames(mr), Frames(ml)) * Frames(a)[2] * Frames(b)[2]

\* the symmetry index was reported
SymmetryCase == gpc = "measured" /\ measurements.symmetry_index # None

\* C24: whenever it is defined the reported symmetry index is 0 for equal
\* left and right means, is the same with left and right swapped, for a
\* fixed mean cycle time does not decrease as |left - right| grows, and is
\* 0 for a mean cycle time of 0
C24_SymmetryIndex ==
    SymmetryCase =>
        LET mr == gait_cycle_info.mean_gait_cycle_right
            ml == gait_cycle_info.mean_gait_cycle_left
        IN /\ RatioGap(mr, ml) = 0 => measurements.symmetry_index = 0
           /\ measurements.symmetry_index \in symmetry_index(ml, mr)
           /\ symmetry_index(ml, mr) = symmetry_index(mr, ml)
           /\ \A band \in GapBands : \A a, b \in MeansOf(band) :
                 (SameSum(a, b, mr, ml) /\ WiderBy(a, b, mr, ml) > 0) =>
                     \A s \in symmetry_index(a, b) : s >= measurements.symmetry_index
           /\ RatioSum(mr, ml) = 0 => measurements.symmetry_index = 0

\* a positive symmetry index was reported, and other means have the same
\* mean cycle time with a larger difference
C24_Witness ==
    /\ SymmetryCase
    /\ measurements.symmetry_index > 0
    /\ LET mr == gait_cycle_info.mean_gait_cycle_right
           ml == gait_cycle_info.mean_gait_cycle_left
       IN \E band \in GapBands : \E a, b \in MeansOf(band) :
             /\ SameSum(a, b, mr, ml)
             /\ WiderBy(a, b, mr, ml) > 0
             /\ \A s \in symmetry_index(a, b) : s > measurements.symmetry_index

\* ------------------------------------ detect_gait_cycles on sine-wave ankles
\* The smoothing, detrending and peak picking of lines 72-85, computed sample
\* by sample for ankle columns that are sampled sine waves.  Coordinates are
\* counted in units of 0.0005 of the frame height.

\* the trajectory spans up to MaxPeriods periods of the sine
MaxPeriods == 20

\* prominence = 0.005 (line 81), in units
prominence == 10

\* rolling(window=30, min_periods=1) (lines 76-77)
rolling_window == 30

\* the amplitude of the synthetic ankle signal: 0.05 of the frame height
amplitude == 100

\* amplitude * sin(2 pi k / period) for k = 0..period-1, to the nearest unit
SineWave(period) ==
    IF period = 12
    THEN <<0, 50, 87, 100, 87, 50, 0, -50, -87, -100, -87, -50>>
    ELSE <<0, 31, 59, 81, 95, 100, 95, 81, 59, 31,
           0, -31, -59, -81, -95, -100, -95, -81, -59, -31>>

WavePeriods == {12, 20}

\* the trajectory lengths tried, in frames: 2 periods, and anything in the
\* last of the MaxPeriods periods
WaveLengths(period) ==
    {2 * period} \cup (((MaxPeriods - 1) * period)..(MaxPeriods * period))

\* the column of n frames of the sine, `shift` frames into its period
SineColumn(period, shift, n) ==
    [t \in 1..n |-> SineWave(period)[((t - 1 + shift) % period) + 1]]

\* the least-squares parabola through 11 samples at -5..5, evaluated at xj, as
\* the weight of the sample at xi, times savgol_scale
savgol_scale == 4290
savgol_weight(xj, xi) == 390 + 39 * xj * xi + 5 * (xj * xj - 10) * (xi * xi - 10)

\* signal.savgol_filter(y, window_length=11, polyorder=2) (lines 72-73) times
\* savgol_scale, for Len(y) >= 11: the parabola fitted to the 11 samples around
\* t, and in the first and last 5 frames the parabola fitted to the first and
\* last 11 samples (mode='interp')
savgol_filter(y) ==
    [t \in 1..Len(y) |->
        LET first == IF t <= 5 THEN 0
                     ELSE IF t > Len(y) - 5 THEN Len(y) - default_window_length
                     ELSE t - 6
        IN Sum([k \in 1..default_window_length |->
                    savgol_weight(t - first - 6, k - 6) * y[first + k]])]

\* lines 76-77: s - pd.Series(s).rolling(window=30, min_periods=1).mean(), each
\* sample as a ratio <<num, den>> over the number of frames of its window
detrended(s) ==
    [t \in 1..Len(s) |->
        LET from == Max(1, t - rolling_window + 1)
            count == t - from + 1
        IN <<count * s[t] - Sum([k \in 1..count |-> s[from + k - 1]]), count>>]

\* a < b, a = b and a - b >= c for ratios a and b
Below(a, b) == a[1] * b[2] < b[1] * a[2]
Level(a, b) == a[1] * b[2] = b[1] * a[2]
Exceeds(a, b, c) == a[1] * b[2] - b[1] * a[2] >= c * a[2] * b[2]

\* the last sample of the plateau of x that starts at a
RECURSIVE PlateauEnd(_, _)
PlateauEnd(x, a) ==
    IF a < Len(x) /\ Level(x[a + 1], x[a]) THEN PlateauEnd(x, a + 1) ELSE a

\* find_peaks, first step: the samples higher than both neighbours, the
\* middle of a plateau standing for it; the first and last sample are no peak
local_maxima(x) ==
    {(a + PlateauEnd(x, a)) \div 2 :
        a \in {b \in 2..(Len(x) - 1) :
                  /\ Below(x[b - 1], x[b])
                  /\ PlateauEnd(x, b) < Len(x)
                  /\ Below(x[PlateauEnd(x, b) + 1], x[b])}}

\* find_peaks, distance=10: the highest peak is kept (of equally high ones
\* the last) and the peaks closer than `distance` to it are dropped, and so
\* on for the peaks that remain
RECURSIVE select_by_peak_distance(_, _, _)
select_by_peak_distance(x, kept, todo) ==
    IF todo = {} THEN kept
    ELSE LET j == CHOOSE k \in todo :
                      \A o \in todo : Below(x[o], x[k]) \/ (Level(x[o], x[k]) /\ o <= k)
         IN select_by_peak_distance(x, kept \cup {j},
                                    {k \in todo \ {j} : Abs(k - j) >= distance})

\* find_peaks, prominence=0.005: the peak rises by at least the prominence
\* above the lowest sample between it and the next higher sample (or the end
\* of the signal), on its left and on its right
peak_is_prominent(x, peak) ==
    LET higher_left == {k \in 1..(peak - 1) : Below(x[peak], x[k])}
        higher_right == {k \in (peak + 1)..Len(x) : Below(x[peak], x[k])}
        left == IF higher_left = {} THEN 1 ELSE SeqMax(Ascending(higher_left)) + 1
        right == IF higher_right = {} THEN Len(x) ELSE SeqMin(Ascending(higher_right)) - 1
    IN /\ \E k \in left..peak : Exceeds(x[peak], x[k], prominence * savgol_scale)
       /\ \E k \in peak..right : Exceeds(x[peak], x[k], prominence * savgol_scale)

\* lines 83-86: signal.find_peaks(x, prominence=prominence, distance=distance),
\* as frame numbers from 0
find_peaks_of(x) ==
    LET selected == select_by_peak_distance(x, {}, local_maxima(x))
    IN Ascending({peak - 1 : peak \in {k \in selected : peak_is_prominent(x, k)}})

\* mutant: only the contacts of the right foot are counted
detect_wave_cycles_right(right_ankle_y, left_ankle_y, fps_) ==
    LET valleys_right == find_peaks_of(detrended(savgol_filter(right_ankle_y)))
    IN CycleInfo(<<>>, valleys_right, Len(right_ankle_y), fps_)

\* lines 72-118 for ankle columns without gaps of at least 11 frames
detect_wave_cycles(right_ankle_y, left_ankle_y, fps_) ==
    LET valleys_right == find_peaks_of(detrended(savgol_filter(right_ankle_y)))
        valleys_left == find_peaks_of(detrended(savgol_filter(left_ankle_y)))
    IN CycleInfo(valleys_left, valleys_right, Len(right_ankle_y), fps_)

\* detect_gait_cycles is called on the trajectory
WaveCall ==
    /\ wpc = "call"
    /\ wave_info' = detect_wave_cycles(ankles.right, ankles.left, wave_fps)
    /\ wpc' = "done"
    /\ UNCHANGED <<ankles, wave_period, wave_fps, outsideWave>>

\* the ankles of a walker: two sine waves of the same period half a period
\* apart, starting anywhere in the period
InitWave ==
    /\ FsmIdle
    /\ MatchOff
    /\ FrameOff
    /\ RangeOff
    /\ GaitOff
    /\ FillOff
    /\ ExtractOff
    /\ TwinOff
    /\ IouOff
    /\ StatsOff
    /\ AuthOff
    /\ wave_period \in WavePeriods
    /\ wave_fps \in GaitFpsPool
    /\ \E shift \in 0..(wave_period - 1), n \in WaveLengths(wave_period) :
          ankles = [right |-> SineColumn(wave_period, shift, n),
                    left |-> SineColumn(wave_period, shift + (wave_period \div 2), n)]
    /\ wpc = "call"
    /\ wave_info = NoCycles

NextWave == WaveCall

SpecWave == InitWave /\ [][NextWave]_vars

\* the cadence of a walker with one foot contact per side and period
AnalyticCadence == <<2 * 60 * wave_fps, wave_period>>

\* the reported cadence is within 5% of the analytic one
CadenceWithin5Percent ==
    LET c == wave_info.cadence
        a == AnalyticCadence
    IN 20 * Abs(c[1] * a[2] - a[1] * c[2]) <= a[1] * c[2]

TwinBuffer ==
    /\ pc = "idle"
    /\ \E f \in 1..MaxFps :
          /\ fps' = f
          /\ SetLocals(FreshLocals(CooldownFrames("buffer", f, 1)))
    /\ mode' = "buffer"
    /\ skip_frames' = 1
    /\ detector' = TRUE
    /\ calls' = calls + 1
    /\ pc' = "loop"
    /\ i' = 0
    /\ UNCHANGED <<leftover, outsideFsm>>

\* detect_video(video_path, fps) is called on a video of the same frames,
\* with the same fps: detect_frame reports for each frame what it reported
\* in the buffer call
TwinVideo ==
    /\ pc = "done"
    /\ mode = "buffer"
    /\ buffer_run' = [detections |-> [k \in 1..Len(frame_results) |->
                                         [fall_detected |-> frame_results[k].fall_detected,
                                          confidence |-> frame_results[k].confidence]],
                      fall_events |-> fall_events,
                      recorded |-> TRUE]
    /\ mode' = "video"
    /\ SetLocals(FreshLocals(CooldownFrames("video", fps, 1)))
    /\ calls' = calls + 1
    /\ pc' = "replay"
    /\ i' = 0
    /\ UNCHANGED <<detector, leftover, fps, skip_frames, matchVars, frameVars, rangeVars, gaitVars,
                   fillVars, extractVars, waveVars, iouVars, statsVars, authVars>>

\* the loop body of detect_video for the next frame of the video
TwinFrame ==
    /\ pc = "replay"
    /\ i < Len(buffer_run.detections)
    /\ Frame(buffer_run.detections[i + 1])

\* cap.read() fails after the last frame: trailing event, then return
TwinEnd ==
    /\ pc = "replay"
    /\ i = Len(buffer_run.detections)
    /\ Return

NextTwin ==
    \/ TwinBuffer
    \/ ProcessFrame(MaxSamples, {9})
    \/ EndOfStream
    \/ TwinVideo
    \/ TwinFrame
    \/ TwinEnd

SpecTwin == Init /\ [][NextTwin]_vars

\* detect_video has returned for the frames of the recorded buffer call
BothReturned == pc = "done" /\ mode = "video" /\ buffer_run.recorded

\* C26: detect_frames_buffer with skip_frames = 1 over the frames 0..n-1 and
\* detect_video over the same frames return the same list of events (same
\* start_frame, end_frame, duration and confidence), an event still in
\* progress at the end of the stream included
C26_SameEvents ==
    BothReturned => fall_events = buffer_run.fall_events

\* the persons of the result that are reported fallen
Fallen == {k \in 1..Len(result.persons) : result.persons[k].is_fall}

C27_WitnessTwoStage ==
    /\ dpc = "returned"
    /\ TwoStage
    /\ result.fall_detected
    /\ Len(result.persons) = Len(raw_persons)

\* ------------------------------------------------- calculate_iou on its own
\* box coordinates range over 0..MaxCoord
MaxCoord == 2

\* the well-formed boxes: x1 <= x2 and y1 <= y2, zero-area ones included
WellFormedBoxes ==
    {b \in (0..MaxCoord) \X (0..MaxCoord) \X (0..MaxCoord) \X (0..MaxCoord) :
        b[1] <= b[3] /\ b[2] <= b[4]}

\* calculate_iou(box1, box2) is called and returns
IouCall ==
    /\ ipc = "call"
    /\ iou_result' = calculate_iou(iou_boxes[1], iou_boxes[2])
    /\ ipc' = "returned"
    /\ UNCHANGED <<iou_boxes, outsideIou>>

\* any two well-formed boxes
InitIou ==
    /\ FsmIdle
    /\ MatchOff
    /\ FrameOff
    /\ RangeOff
    /\ GaitOff
    /\ FillOff
    /\ ExtractOff
    /\ WaveOff
    /\ TwinOff
    /\ StatsOff
    /\ AuthOff
    /\ iou_boxes \in WellFormedBoxes \X WellFormedBoxes
    /\ ipc = "call"
    /\ iou_result = <<0, 1>>

NextIou == IouCall

SpecIou == InitIou /\ [][NextIou]_vars

\* width * height of a box
BoxArea(b) == (b[3] - b[1]) * (b[4] - b[2])

\* the boxes share a region of positive area
Overlapping(a, b) ==
    /\ Max(a[1], b[1]) < Min(a[3], b[3])
    /\ Max(a[2], b[2]) < Min(a[4], b[4])

\* the area covered by the two boxes together, cell by cell
UnionArea(a, b) ==
    Cardinality({c \in (0..(MaxCoord - 1)) \X (0..(MaxCoord - 1)) :
                    \/ a[1] <= c[1] /\ c[1] < a[3] /\ a[2] <= c[2] /\ c[2] < a[4]
                    \/ b[1] <= c[1] /\ c[1] < b[3] /\ b[2] <= c[2] /\ c[2] < b[4]})

\* C28: for well-formed boxes calculate_iou is symmetric, lies in [0, 1], is
\* exactly 0 for boxes that do not overlap, is 1 for identical boxes of
\* positive area, and is the sentinel 0.0, without a division, when the union
\* area is zero
C28_Iou ==
    ipc = "returned" =>
        LET a == iou_boxes[1]
            b == iou_boxes[2]
            swapped == calculate_iou(b, a)
        IN /\ iou_result[2] > 0
           /\ iou_result[1] * swapped[2] = swapped[1] * iou_result[2]
           /\ 0 <= iou_result[1] /\ iou_result[1] <= iou_result[2]
           /\ ~Overlapping(a, b) => iou_result[1] = 0
           /\ (a = b /\ BoxArea(a) > 0) => iou_result[1] = iou_result[2]
           /\ UnionArea(a, b) = 0 => iou_result = <<0, 1>>
           /\ UnionArea(a, b) > 0 => iou_result[2] = UnionArea(a, b)

\* two different boxes that overlap in part
C28_Witness ==
    /\ ipc = "returned"
    /\ Overlapping(iou_boxes[1], iou_boxes[2])
    /\ BoxArea(iou_boxes[1]) # BoxArea(iou_boxes[2])
    /\ 0 < iou_result[1]
    /\ iou_result[1] < iou_result[2]

\* ------------------------------------------ history_metrics (src/app.py)
\* lines 633-650: the statistics of one metric, for the history vs of its
\* values and the outlier count calculate_dynamic_range returned; mean, std,
\* min and max are in hundredths (round(x, 2)), std = sqrt(SqDev * n) / n^2
metric_stats(vs, limits, outlier_count) ==
    LET f == filter_outliers(vs, limits, TRUE)
        filtered_values == IF f.filtered = <<>> THEN vs ELSE f.filtered
        n == Len(filtered_values)
    IN IF filtered_values = <<>> THEN {NoStats}
       ELSE {[count |-> n,
              total_count |-> Len(vs),
              outliers_filtered |-> outlier_count,
              mean |-> mean_,
              std |-> std_,
              min |-> 100 * SeqMin(filtered_values),
              max |-> 100 * SeqMax(filtered_values),
              reported |-> TRUE] :
                mean_ \in RoundSet([P |-> 100 * Sum(filtered_values), Q |-> 0, N |-> 0, L |-> n]),
                std_ \in RoundSet([P |-> 0, Q |-> 100, N |-> SqDev(filtered_values) * n,
                                   L |-> n * n * n * n])}

\* lines 622-652, for one metric of metrics_config: the range, then the
\* statistics
HistoryMetrics ==
    /\ rpc = "call"
    /\ range_out' \in calculate_dynamic_range(values, base_range, metric_type, hard_limits)
    /\ stats' \in metric_stats(values, hard_limits, range_out'.outlier_count)
    /\ rpc' = "reported"
    /\ UNCHANGED <<values, hard_limits, base_range, metric_type, filter_out, refilter_out,
                   outsideStats>>

\* the history of a metric: up to MaxHistory values; every metric of
\* metrics_config has hard limits
InitStats ==
    /\ FsmIdle
    /\ MatchOff
    /\ FrameOff
    /\ GaitOff
    /\ FillOff
    /\ ExtractOff
    /\ WaveOff
    /\ TwinOff
    /\ IouOff
    /\ AuthOff
    /\ values \in SeqsUpTo(ValuePool, MaxHistory)
    /\ hard_limits \in HardPool \ {NoLimits}
    /\ base_range \in BasePool
    /\ metric_type \in MetricTypes
    /\ rpc = "call"
    /\ filter_out = NothingFiltered
    /\ refilter_out = NothingFiltered
    /\ range_out = [range |-> <<0, 0>>, personal |-> FALSE, outlier_count |-> 0]
    /\ stats = NoStats

NextStats == HistoryMetrics

SpecStats == InitStats /\ [][NextStats]_vars

\* C29: in the statistics history_metrics reports for a metric, count +
\* outliers_filtered = total_count, and every value contributing to the mean,
\* min and max and to the personalised range lies within the hard bounds
C29_StatsConserved ==
    (rpc = "reported" /\ stats.reported) =>
        /\ stats.count + stats.outliers_filtered = stats.total_count
        /\ 100 * hard_limits[1] <= stats.min
        /\ stats.max <= 100 * hard_limits[2]
        /\ range_out.personal =>
              \A k \in 1..Len(ValidValues) : InHardBounds(ValidValues[k])

\* ------------------- send-verification-code and register (src/app.py)
\* Time is counted in minutes and kept relative to datetime.utcnow(): a row
\* of VerificationCode holds expires_in = expires_at - utcnow(), down to 0, and
\* created_at is expiry_minutes before expires_at.  A handler is one step,
\* except register, whose checks (lines 219-244) and commit (lines 246-254)
\* are two steps, so that requests in flight at the same time interleave;
\* the requests in flight ask for different usernames.

\* up to MaxCodes verification codes are issued
MaxCodes == 2

\* timedelta(minutes=10) (line 197)
expiry_minutes == 10

\* a new code at most every 60 seconds (line 193)
resend_minutes == 1

Usernames == {"ann", "bob"}
Emails == {"ann@x.io", "bob@x.io"}
\* the codes that are issued, and the codes that requests present
CodePool == {"123456"}
Presented == CodePool \cup {"000000"}

\* mutant: a code stays valid after its expiry time
is_valid_forever(verification) == ~verification.used

\* VerificationCode.is_valid (lines 65-67): datetime.utcnow() < expires_at
is_valid(verification) == ~verification.used /\ 0 < verification.expires_in

\* (datetime.utcnow() - created_at) in minutes, for a row that has not expired
SinceCreated(verification) == expiry_minutes - verification.expires_in

\* User.query.filter_by(username=...).first() / filter_by(email=...).first()
UsernameExists(username) == \E k \in 1..Len(users) : users[k].username = username
EmailRegistered(email) == \E k \in 1..Len(users) : users[k].email = email

\* the rows VerificationCode.query.filter_by(email=..., code=..., used=False)
\* finds
UnusedCodes(email, code) ==
    {k \in 1..Len(verification_codes) :
        /\ verification_codes[k].email = email
        /\ verification_codes[k].code = code
        /\ ~verification_codes[k].used}

\* .order_by(created_at.desc()).first() of the rows S: the latest one (rows
\* are created in order)
LatestCode(S) == CHOOSE k \in S : \A j \in S : j <= k

\* one minute passes
Tick ==
    /\ \E k \in 1..Len(verification_codes) : verification_codes[k].expires_in > 0
    /\ verification_codes' =
          [k \in 1..Len(verification_codes) |->
              [verification_codes[k] EXCEPT !.expires_in = Max(0, @ - 1)]]
    /\ UNCHANGED <<users, pending, registrations, last_response, outsideAuth>>

\* POST /api/send-verification-code (lines 171-208) for an email of valid
\* format: refused for a registered email or within 60 seconds of the last
\* code for the email, otherwise a code is stored, valid for 10 minutes
SendVerificationCode ==
    /\ Len(verification_codes) < MaxCodes
    /\ \E email \in Emails, code \in CodePool :
          /\ ~EmailRegistered(email)
          /\ \A k \in 1..Len(verification_codes) :
                (verification_codes[k].email = email /\ verification_codes[k].expires_in > 0)
                    => SinceCreated(verification_codes[k]) >= resend_minutes
          /\ verification_codes' =
                Append(verification_codes,
                       [email |-> email, code |-> code, expires_in |-> expiry_minutes,
                        used |-> FALSE])
    /\ UNCHANGED <<users, pending, registrations, last_response, outsideAuth>>

\* lines 228-244: the message of the first check that fails, "" when the
\* username is free, the email is not registered, and the latest unused code
\* of that email and value is valid
Refusal(username, email, code) ==
    IF UsernameExists(username) THEN "username exists"
    ELSE IF EmailRegistered(email) THEN "email registered"
    ELSE IF UnusedCodes(email, code) = {} THEN "wrong code"
    ELSE IF ~is_valid(verification_codes[LatestCode(UnusedCodes(email, code))])
         THEN "code expired"
    ELSE ""

PassesChecks(username, email, code) == Refusal(username, email, code) = ""

\* POST /api/register, lines 219-244, for a request with every field filled
\* in: refused for a taken username, a registered email, no unused code of
\* that email and value, or a code that is no longer valid
RegisterRefused ==
    /\ \E username \in Usernames, email \in Emails, code \in Presented :
          /\ ~PassesChecks(username, email, code)
          /\ last_response' = Refusal(username, email, code)
    /\ UNCHANGED <<users, verification_codes, pending, registrations, outsideAuth>>

\* the same lines for a request that passes every check
RegisterChecked ==
    /\ \E username \in Usernames, email \in Emails, code \in Presented :
          /\ \A request \in pending : request.username # username
          /\ PassesChecks(username, email, code)
          /\ LET row == LatestCode(UnusedCodes(email, code))
             IN pending' = pending \cup
                   {[username |-> username, email |-> email, code |-> code, row |-> row,
                     in_time |-> 0 < verification_codes[row].expires_in]}
    /\ UNCHANGED <<users, verification_codes, registrations, last_response, outsideAuth>>

\* mutant: the database does not enforce the unique columns of User
UniqueViolationNone(request) == FALSE

\* db.session.commit() raises for a username or email that is already in
\* User (unique=True, lines 44-45)
UniqueViolation(request) ==
    UsernameExists(request.username) \/ EmailRegistered(request.email)

\* lines 246-254 for a request past its checks: the code is marked used and
\* the user is created in one transaction; it is rolled back, and the request
\* fails, when the commit raises
RegisterCommit ==
    /\ \E request \in pending :
          /\ pending' = pending \ {request}
          /\ IF UniqueViolation(request)
             THEN /\ last_response' = "failed"
                  /\ UNCHANGED <<users, verification_codes, registrations>>
             ELSE /\ last_response' = "registered"
                  /\ registrations' =
                        Append(registrations,
                               [email |-> request.email, code |-> request.code,
                                row |-> request.row, in_time |-> request.in_time,
                                used_before |-> verification_codes[request.row].used])
                  /\ users' = Append(users, [username |-> request.username,
                                             email |-> request.email])
                  /\ verification_codes' =
                        [verification_codes EXCEPT ![request.row].used = TRUE]
    /\ UNCHANGED outsideAuth

NextAuth ==
    \/ Tick
    \/ SendVerificationCode
    \/ RegisterRefused
    \/ RegisterChecked
    \/ RegisterCommit

SpecAuth == Init /\ [][NextAuth]_vars

\* C30: a verification code completes at most one registration: register
\* succeeds only with a code issued for the same email that is unused and not
\* expired (10 minutes after issue), a success marks the code used, and every
\* later request presenting the code is refused and creates no user
C30_CodeRegistersOnce ==
    /\ \A k \in 1..Len(registrations) :
          LET verification == verification_codes[registrations[k].row]
          IN /\ verification.email = registrations[k].email
             /\ verification.code = registrations[k].code
             /\ ~registrations[k].used_before
             /\ registrations[k].in_time
             /\ verification.used
    /\ \A j, k \in 1..Len(registrations) :
          j # k =>
              /\ registrations[j].row # registrations[k].row
              /\ <<registrations[j].email, registrations[j].code>>
                    # <<registrations[k].email, registrations[k].code>>
    /\ Len(users) = Len(registrations)

\* after a registration, a request for the same email is refused, and there
\* is one user
C30_Witness ==
    /\ Len(registrations) = 1
    /\ Len(users) = 1
    /\ verification_codes[registrations[1].row].used
    /\ last_response = "email registered"

====
